---- MODULE Spec2Model ----
(***************************************************************************)
(* Real-time media pipeline of the voice-call client.                      *)
(*                                                                         *)
(*   PCMProcessor  (s2s-client/public/worklets/audio-processor.js)         *)
(*       the playback ring buffer: port.onmessage and process()            *)
(*   AudioManager  (s2s-client/src/utils/audio-manager.ts)                 *)
(*       the duplex transport session and its status state machine         *)
(*                                                                         *)
(* Handlers run to completion on their own thread (JavaScript event loop   *)
(* on the main thread, the AudioWorkletGlobalScope on the render thread),  *)
(* so every handler is one atomic action.  The two threads communicate     *)
(* only through the MessagePort pair of the AudioWorkletNode, modelled as  *)
(* FIFO queues.                                                            *)
(***************************************************************************)
EXTENDS Integers, Sequences, FiniteSets, TLC

(***************************************************************************)
(* Bounds of the model.                                                    *)
(***************************************************************************)
\* Capacity of the ring buffer.  The source allocates 24000 * 5 samples
\* (audio-processor.js:5); the model scales the capacity down so that
\* overflow and wrap-around of both cursors happen within a few steps.
bufferSize == 4

\* Most messages in flight from the main thread to the worklet.
MaxPort == 1

\* Most captured frames in flight from the worklet to the main thread.
MaxInput == 1

\* Most connect() calls on one LiveTalkingWebRTC object.
MaxConnects == 2

\* Most /interrupt_talk requests awaiting their response at one time.
MaxInterrupts == 1

\* Most requestAnimationFrame callbacks of the renderer pending at one time.
MaxLoops == 2

\* Most rounds of resource creation in one graphics context.
MaxInits == 2

\* Most 1000 ms timers of startRendering pending at one time.
MaxTimers == 1

\* Most microphone streams the session holds before startRecording() is no
\* longer called again.
MaxStreams == 2

\* Samples per render callback in the end-to-end scenario (480 of 4800 in the
\* scenario; scaled with the ring).
E2EFrame == 2

\* The empty value of a nullable field.
NULL == "null"

\* Sample values carried by audio payloads: non-zero, so that they differ
\* from the silence the render callback writes on underrun.
SampleValues == {1, 2, 3}

\* Longest payload of one 'buffer' message: one more than the capacity, so
\* that a single message can overflow an empty buffer.
MaxLen == bufferSize + 1

\* Sizes of the output frame the platform hands to process().
FrameSizes == 1 .. (bufferSize + 1)

\* A payload of n samples that starts at value s and steps through the sample
\* values cyclically: neighbouring samples differ, so a reordered, repeated,
\* skipped or overwritten sample shows.
Ramp(n, s) == [i \in 1 .. n |-> ((s + i - 2) % Cardinality(SampleValues)) + 1]

Payloads == {Ramp(n, s) : n \in 0 .. MaxLen, s \in SampleValues}

\* Messages the worklet's port can receive: the two kinds the handler knows
\* and one it does not.
BufferMsg(d) == [type |-> "buffer", buffer |-> d]
ClearMsg == [type |-> "clear", buffer |-> <<>>]
OtherMsg == [type |-> "other", buffer |-> <<>>]
PortMessages == {BufferMsg(d) : d \in Payloads} \cup {ClearMsg, OtherMsg}

ConnectionStatus == {"disconnected", "connecting", "ready", "processing", "error"}

VARIABLES
    \* ---- PCMProcessor (render thread) ----
    buffer,             \* this.buffer: Float32Array(bufferSize), indexed from 0
    writeIndex,         \* this.writeIndex
    readIndex,          \* this.readIndex
    availableSamples,   \* this.availableSamples
    \* ---- MessagePort pair of the AudioWorkletNode ----
    port,               \* main thread -> worklet, FIFO
    inputPort,          \* worklet -> main thread: captured frames in flight
    \* ---- AudioManager (main thread) ----
    status,             \* this.status
    isRecording,        \* this.isRecording
    audioContext,       \* this.audioContext
    workletNode,        \* this.workletNode
    stream,             \* this.stream
    websocket,          \* this.websocket
    readyState,         \* readyState of the socket made by connectWebSocket
    connectPromise,     \* promise returned by connectWebSocket
    timeoutArmed,       \* the setTimeout of connectWebSocket is pending
    initPc,             \* position of initialize()
    recPc,              \* position of startRecording()
    \* ---- what the session holds of the platform ----
    streams,            \* microphone streams obtained and not stopped
    nodes,              \* worklet nodes connected and not disconnected
    \* ---- what the latest step produced (empty after any other step) ----
    output,             \* outputs[0][0] as a render callback left it
    notified,           \* the handler's onStatusChange calls, in order
    errorCb,            \* the handler called onError
    sent,               \* what the handler gave to websocket.send
    activity,           \* the handler called onAudioActivity
    \* ---- history variables (not program state) ----
    handled,            \* the inbound frame the latest step handled (or its
                        \* call of stop()), with the status and worklet node
                        \* before it
    cleared,            \* a 'clear' was applied and no sample stored since
    burst,              \* payload of an overflowing write into an empty buffer
    drained,            \* samples read from the buffer since that write
    fifo,               \* the bounded FIFO queue the ring buffer stands for
    script,             \* progress of the end-to-end scenario
    barge,              \* progress of the barge-in scenario
    \* ---- LiveTalkingWebRTC ----
    peerConnection,     \* this.peerConnection
    sessionId,          \* this.sessionId
    connPc,             \* position of connect()
    connData,           \* connect()'s local data: the parsed response body
    connects,           \* connect() calls made so far
    \* ---- the RTCPeerConnection objects and the timer of the ICE wait ----
    peers,              \* peer connections created and not closed
    remoteSet,          \* the current peer connection has its remote answer
    iceComplete,        \* its iceGatheringState is 'complete'
    iceListener,        \* checkState is registered on it
    iceTimer,           \* the setTimeout of waitForIceGathering is pending
    \* ---- what the latest step of LiveTalkingWebRTC produced ----
    liveCall,           \* the method the step ran or resumed
    liveError,          \* it called config.onError
    liveReturn,         \* how the method's promise settled in it
    liveValue,          \* the session id connect() resolved with
    request,            \* the request it sent
    requestId,          \* the session id that request carried
    \* ---- the requests of interrupt() ----
    interrupts,         \* /interrupt_talk requests awaiting their response
    \* ---- WebGLVideoRenderer ----
    gl,                 \* this.gl
    programSBS,         \* this.programSBS
    programNormal,      \* this.programNormal
    texture,            \* this.texture
    vertexBuffer,       \* this.buffer
    animationFrameId,   \* this.animationFrameId, 0 for null
    isInitialized,      \* this.isInitialized
    isSideBySide,       \* this._isSideBySide
    formatDetected,     \* this.formatDetected
    lastVideoWidth,     \* this.lastVideoWidth
    lastVideoHeight,    \* this.lastVideoHeight
    \* ---- the video and canvas elements, the context, the frame callbacks ----
    videoReady,         \* video.readyState >= 2
    videoWidth,         \* video.videoWidth
    videoHeight,        \* video.videoHeight
    canvasWidth,        \* canvas.width
    canvasHeight,       \* canvas.height
    currentProgram,     \* the program made current by gl.useProgram
    gens,               \* rounds of resource creation in the context so far
    deleted,            \* resources deleted from the context
    pendingFrames,      \* ids of requestAnimationFrame callbacks not yet run
    \* ---- useTransparentVideo ----
    rendererRef,        \* rendererRef.current is a renderer
    isWebGLActive,      \* the isWebGLActive state
    hookSideBySide,     \* the isSideBySide state
    mounted,            \* the component is mounted: both element refs are set
    formatTimers,       \* pending 1000 ms timers of startRendering
    \* ---- what the latest step of the compositor produced ----
    renderCall,         \* the method or callback the step ran
    startReturn,        \* what start() returned in it
    detected,           \* layout detection ran in it
    drawn,              \* the frame it drew
    fallback,           \* it called onFallback
    \* ---- App: startCall and endCall ----
    callPc,             \* position of startCall()
    liveTalkingSessionId, \* startCall()'s local liveTalkingSessionId
    liveTalkingRef,     \* liveTalkingRef.current is the LiveTalkingWebRTC object
    audioManager,       \* the audioManager state is the AudioManager object
    ended               \* endCall() has run

ringVars == <<buffer, writeIndex, readIndex, availableSamples>>
portVars == <<port, inputPort>>
resVars == <<streams, nodes>>
mgrVars == <<status, isRecording, audioContext, workletNode, stream, websocket,
             readyState, connectPromise, timeoutArmed, initPc, recPc, resVars>>
outVars == <<output, notified, errorCb, sent, activity, handled>>
histVars == <<cleared, burst, drained, fifo>>
liveVars == <<peerConnection, sessionId, connPc, connData, connects>>
peerVars == <<peers, remoteSet, iceComplete, iceListener, iceTimer>>
liveOut == <<liveCall, liveError, liveReturn, liveValue, request, requestId>>
live == <<liveVars, peerVars, liveOut, interrupts>>
audio == <<ringVars, portVars, mgrVars, outVars, histVars, script, barge>>
glVars == <<gl, programSBS, programNormal, texture, vertexBuffer, isInitialized,
            gens>>
detVars == <<isSideBySide, formatDetected, lastVideoWidth, lastVideoHeight,
             canvasWidth, canvasHeight, currentProgram>>
loopVars == <<animationFrameId, pendingFrames>>
videoVars == <<videoReady, videoWidth, videoHeight>>
hookVars == <<rendererRef, isWebGLActive, hookSideBySide, mounted, formatTimers>>
renderOut == <<renderCall, startReturn, detected, drawn, fallback>>
compositor == <<glVars, detVars, loopVars, videoVars, deleted, hookVars, renderOut>>
app == <<callPc, liveTalkingSessionId, liveTalkingRef, audioManager, ended>>
vars == <<audio, live, compositor, app>>

\* connect() has no response body yet.
NoData == [code |-> 0, sessionid |-> 0]

\* A null resource field, and the resource of one kind made in round g.
NoResource == [kind |-> "none", gen |-> 0]
Resource(kind, g) == [kind |-> kind, gen |-> g]

\* A step that drew no frame.
NoDraw == [frame |-> FALSE, program |-> NoResource, sideBySide |-> FALSE]

\* No inbound frame: the latest step was not the socket's onmessage.
NoFrame == [kind |-> "none", data |-> <<>>, before |-> "none", node |-> NULL]

(***************************************************************************)
(* PCMProcessor: the ring buffer.                                          *)
(***************************************************************************)
Zeros(n) == [i \in 1 .. n |-> 0]

\* The value process() writes on underrun (line 54).
Silence == 0

\* Line 16: a sample is stored only while the buffer is not full.
CanStoreAlways(a) == TRUE
CanStoreOffByOne(a) == a <= bufferSize
CanStore(a) == a < bufferSize

\* Line 49: a sample is read only while one is available.
HasSampleOffByOne(a) == a >= 0
HasSample(a) == a > 0

\* Lines 18 and 51: a cursor advances modulo the capacity.
AdvanceOffByOne(idx) == (idx + 1) % (bufferSize + 1)
Advance(idx) == (idx + 1) % bufferSize

\* Lines 15-22: the write loop of the 'buffer' branch, from index i on.
\* st = [buffer, writeIndex, availableSamples].
RECURSIVE WriteLoop(_, _, _)
WriteLoop(st, newData, i) ==
    IF i < Len(newData)
    THEN IF CanStore(st.availableSamples)
         THEN WriteLoop([buffer |-> [st.buffer EXCEPT ![st.writeIndex] = newData[i + 1]],
                         writeIndex |-> Advance(st.writeIndex),
                         availableSamples |-> st.availableSamples + 1],
                        newData, i + 1)
         ELSE WriteLoop(st, newData, i + 1)
    ELSE st

\* Lines 23-27: the 'clear' branch.  c = [writeIndex, readIndex, availableSamples].
ClearWriteCursorKept(c) == [writeIndex |-> c.writeIndex, readIndex |-> 0,
                            availableSamples |-> 0]
ClearCountOnly(c) == [writeIndex |-> c.writeIndex, readIndex |-> c.readIndex,
                      availableSamples |-> 0]
ClearCursorsOnly(c) == [writeIndex |-> 0, readIndex |-> 0,
                        availableSamples |-> c.availableSamples]
ClearedState(c) == [writeIndex |-> 0, readIndex |-> 0, availableSamples |-> 0]

\* Lines 11-28: port.onmessage of the processor.
OnMessage(msg) ==
    IF msg.type = "buffer"
    THEN LET r == WriteLoop([buffer |-> buffer, writeIndex |-> writeIndex,
                             availableSamples |-> availableSamples],
                            msg.buffer, 0)
         IN /\ buffer' = r.buffer
            /\ writeIndex' = r.writeIndex
            /\ availableSamples' = r.availableSamples
            /\ readIndex' = readIndex
    ELSE IF msg.type = "clear"
    THEN LET c == ClearedState([writeIndex |-> writeIndex, readIndex |-> readIndex,
                                availableSamples |-> availableSamples])
         IN /\ writeIndex' = c.writeIndex
            /\ readIndex' = c.readIndex
            /\ availableSamples' = c.availableSamples
            /\ buffer' = buffer
    ELSE UNCHANGED <<buffer, writeIndex, readIndex, availableSamples>>

\* Line 52: reading a sample takes one off the count.
ConsumedNever(a) == a
Consumed(a) == a - 1

\* Lines 48-56: the read loop over an output channel of length n, from index
\* i on.  st = [readIndex, availableSamples, out, taken]: out is the output
\* channel so far, taken the samples that came from the buffer (line 50).
RECURSIVE ReadLoop(_, _, _)
ReadLoop(st, n, i) ==
    IF i < n
    THEN IF HasSample(st.availableSamples)
         THEN ReadLoop([readIndex |-> Advance(st.readIndex),
                        availableSamples |-> Consumed(st.availableSamples),
                        out |-> Append(st.out, buffer[st.readIndex]),
                        taken |-> Append(st.taken, buffer[st.readIndex])],
                       n, i + 1)
         ELSE ReadLoop([st EXCEPT !.out = Append(st.out, Silence)], n, i + 1)
    ELSE st

Rendered(n) == ReadLoop([readIndex |-> readIndex, availableSamples |-> availableSamples,
                         out |-> <<>>, taken |-> <<>>], n, 0)

\* Lines 31-65: process() with an output channel of n samples; hasInput says
\* whether inputs[0][0] holds a captured frame, which is then posted upstream.
Process(n, hasInput) ==
    /\ hasInput => inputPort < MaxInput
    /\ inputPort' = IF hasInput THEN inputPort + 1 ELSE inputPort
    /\ LET r == Rendered(n)
       IN /\ output' = r.out
          /\ readIndex' = r.readIndex
          /\ availableSamples' = r.availableSamples
    /\ UNCHANGED <<buffer, writeIndex, port>>

(***************************************************************************)
(* The bounded FIFO queue of samples the ring buffer is meant to be: what  *)
(* a message and a read of n samples do to it.                             *)
(***************************************************************************)
Take(s, n) == SubSeq(s, 1, IF n < Len(s) THEN n ELSE Len(s))
Drop(s, n) == SubSeq(s, (IF n < Len(s) THEN n ELSE Len(s)) + 1, Len(s))

FifoOnMessage(q, msg) ==
    IF msg.type = "buffer" THEN q \o Take(msg.buffer, bufferSize - Len(q))
    ELSE IF msg.type = "clear" THEN <<>>
    ELSE q

FifoRead(q, n) == Take(q, n) \o Zeros(n - Len(Take(q, n)))

(***************************************************************************)
(* The worklet's two entry points as steps of the system.                  *)
(***************************************************************************)
\* A step of the render thread calls no callback of the session.
NoCallbacks ==
    /\ notified' = <<>>
    /\ errorCb' = FALSE
    /\ sent' = "none"
    /\ activity' = FALSE
    /\ handled' = NoFrame

\* The processor handles message msg (port.onmessage, lines 11-28).
WorkletMessage(msg) ==
    /\ OnMessage(msg)
    /\ output' = <<>>
    /\ NoCallbacks
    /\ cleared' = IF msg.type = "clear" THEN TRUE
                  ELSE IF msg.type = "buffer" /\ Len(msg.buffer) >= 1 THEN FALSE
                  ELSE cleared
    /\ burst' = IF msg.type = "buffer" /\ availableSamples = 0
                   /\ Len(msg.buffer) > bufferSize
                THEN msg.buffer ELSE <<>>
    /\ drained' = <<>>
    /\ fifo' = FifoOnMessage(fifo, msg)

\* The platform calls process() with an output frame of n samples.
RenderTick(n, hasInput) ==
    /\ Process(n, hasInput)
    /\ NoCallbacks
    /\ drained' = IF burst # <<>> THEN drained \o Rendered(n).taken ELSE <<>>
    /\ fifo' = Drop(fifo, n)
    /\ UNCHANGED <<cleared, burst>>

(***************************************************************************)
(* AudioManager: the transport session.                                    *)
(***************************************************************************)
\* Inbound textual frames: what JSON.parse makes of the text ("invalid" when
\* it throws, "null" for the JSON value null) and, for an object, its type
\* and message fields.
StatusMessages == {"ready", "user_speaking", "processing", "done", "history_cleared"}

JsonMsg(t, m) == [parse |-> "object", type |-> t, message |-> m]
StatusMsg(m) == JsonMsg("status", m)

TextMessages ==
    {StatusMsg(m) : m \in StatusMessages \cup {"other"}}
        \cup {JsonMsg("error", "failure"), JsonMsg("other", "other"),
              [parse |-> "null", type |-> "none", message |-> "none"],
              [parse |-> "invalid", type |-> "none", message |-> "none"]}

\* Inbound binary frames: the samples the ArrayBuffer encodes and the bytes
\* left over beyond a whole number of 4-byte floats.
Pcm(d) == [samples |-> d, extraBytes |-> 0]

WsPayloads == {Pcm(<<1>>), [samples |-> <<1>>, extraBytes |-> 1]}

\* Lines 25-28 and the callbacks of a main-thread handler: calls are its
\* setStatus calls in order, err whether it called onError, snt what it sent
\* on the socket, frame the inbound frame it handled, act whether it called
\* onAudioActivity.
Callbacks(calls, err, snt, frame, act) ==
    /\ status' = IF calls = <<>> THEN status ELSE calls[Len(calls)]
    /\ notified' = calls
    /\ errorCb' = err
    /\ sent' = snt
    /\ activity' = act
    /\ handled' = frame
    /\ output' = <<>>

\* A handler other than the worklet port's: no onAudioActivity call.
Effects(calls, err, snt, frame) == Callbacks(calls, err, snt, frame, FALSE)

\* Lines 103-128: the setStatus calls handleJsonMessage makes for an object
\* with the given type and message, in order.
StatusCallsStrict(type, message) ==
    IF type = "status"
    THEN CASE message = "ready" -> <<"ready">>
           [] message = "user_speaking" -> <<"ready">>
           [] message = "processing" -> <<"processing">>
           [] message = "done" -> <<"ready">>
           [] OTHER -> <<>>
    ELSE <<"error">>

StatusCallsDoneIgnored(type, message) ==
    IF type = "status"
    THEN CASE message = "ready" -> <<"ready">>
           [] message = "user_speaking" -> <<"ready">>
           [] message = "processing" -> <<"processing">>
           [] OTHER -> <<>>
    ELSE IF type = "error" THEN <<"error">> ELSE <<>>

StatusCalls(type, message) ==
    IF type = "status"
    THEN CASE message = "ready" -> <<"ready">>
           [] message = "user_speaking" -> <<"ready">>
           [] message = "processing" -> <<"processing">>
           [] message = "done" -> <<"ready">>
           [] OTHER -> <<>>
    ELSE IF type = "error" THEN <<"error">> ELSE <<>>

\* Lines 108-112: handleJsonMessage posts a 'clear' to the worklet.
PostsClearNever(type, message, node) == FALSE
PostsClear(type, message, node) ==
    type = "status" /\ message = "user_speaking" /\ node # NULL

\* Lines 76-80: the message that settles the connection.
IsReadySignalAnyStatus(data) == data.parse = "object" /\ data.type = "status"
IsReadySignal(data) ==
    data.parse = "object" /\ data.type = "status" /\ data.message = "ready"

\* Lines 46-49: connectWebSocket's promise rejects while initialize() awaits
\* it; the catch block runs before any other handler.  A promise already
\* settled ignores reject().  RejectCalls: the setStatus calls of the catch.
RejectCalls == IF connectPromise = "pending" THEN <<"error">> ELSE <<>>

Reject ==
    /\ connectPromise' = IF connectPromise = "pending" THEN "rejected" ELSE connectPromise
    /\ initPc' = IF connectPromise = "pending" THEN "rejected" ELSE initPc

\* Lines 30-41: initialize() up to its first await.  supported says whether
\* the context has an audioWorklet.
Initialize(supported) ==
    /\ initPc = "idle"
    /\ audioContext' = "context"
    /\ IF supported
       THEN Effects(<<"connecting">>, FALSE, "none", NoFrame) /\ initPc' = "addModule"
       ELSE Effects(<<"connecting", "error">>, FALSE, "none", NoFrame) /\ initPc' = "rejected"
    /\ UNCHANGED <<isRecording, workletNode, stream, websocket, readyState,
                   connectPromise, timeoutArmed, recPc>>
    /\ UNCHANGED <<ringVars, portVars, histVars, resVars>>

\* Lines 41-59: addModule resolved; connectWebSocket creates the socket and
\* arms the timeout.
AddModuleResolved ==
    /\ initPc = "addModule"
    /\ websocket' = "socket"
    /\ readyState' = "CONNECTING"
    /\ timeoutArmed' = TRUE
    /\ connectPromise' = "pending"
    /\ initPc' = "connect"
    /\ Effects(<<>>, FALSE, "none", NoFrame)
    /\ UNCHANGED <<isRecording, audioContext, workletNode, stream, recPc>>
    /\ UNCHANGED <<ringVars, portVars, histVars, resVars>>

\* Lines 41, 46-49: addModule rejected.
AddModuleRejected ==
    /\ initPc = "addModule"
    /\ initPc' = "rejected"
    /\ Effects(<<"error">>, FALSE, "none", NoFrame)
    /\ UNCHANGED <<isRecording, audioContext, workletNode, stream, websocket, readyState,
                   connectPromise, timeoutArmed, recPc>>
    /\ UNCHANGED <<ringVars, portVars, histVars, resVars>>

\* Lines 57-59: the connect timeout fires.
ConnectTimeout ==
    /\ timeoutArmed
    /\ timeoutArmed' = FALSE
    /\ Reject
    /\ Effects(RejectCalls, FALSE, "none", NoFrame)
    /\ UNCHANGED <<isRecording, audioContext, workletNode, stream, websocket, readyState,
                   recPc>>
    /\ UNCHANGED <<ringVars, portVars, histVars, resVars>>

\* Lines 61-63: onopen.  The handler only logs.
OnOpenCalls == <<>>

WsOpen ==
    /\ readyState = "CONNECTING"
    /\ readyState' = "OPEN"
    /\ Effects(OnOpenCalls, FALSE, "none", NoFrame)
    /\ UNCHANGED <<isRecording, audioContext, workletNode, stream, websocket,
                   connectPromise, timeoutArmed, initPc, recPc>>
    /\ UNCHANGED <<ringVars, portVars, histVars, resVars>>

\* Lines 111 and 141: port.postMessage() puts a message behind those already
\* in flight to the worklet.
PostedFirst(q, msg) == <<msg>> \o q
Posted(q, msg) == Append(q, msg)

\* Lines 65-85 and 102-129: onmessage for a textual frame.  When JSON.parse
\* throws, or data.type throws on null, the catch logs and nothing else
\* happens.  cap is the number of messages the port holds at most.
WsTextWithin(data, cap) ==
    /\ readyState = "OPEN"
    /\ LET frame == [kind |-> "text", data |-> data, before |-> status,
                     node |-> workletNode]
       IN IF data.parse = "object"
          THEN LET calls == StatusCalls(data.type, data.message)
                   clear == PostsClear(data.type, data.message, workletNode)
                   ready == IsReadySignal(data)
               IN /\ clear => Len(port) < cap
                  /\ port' = IF clear THEN Posted(port, ClearMsg) ELSE port
                  /\ Effects(IF ready THEN calls \o <<"ready">> ELSE calls,
                             data.type = "error", "none", frame)
                  /\ timeoutArmed' = IF ready THEN FALSE ELSE timeoutArmed
                  /\ connectPromise' = IF ready /\ connectPromise = "pending"
                                       THEN "resolved" ELSE connectPromise
                  /\ initPc' = IF ready /\ connectPromise = "pending"
                               THEN "resolved" ELSE initPc
          ELSE /\ Effects(<<>>, FALSE, "none", frame)
               /\ UNCHANGED <<port, timeoutArmed, connectPromise, initPc>>
    /\ UNCHANGED <<isRecording, audioContext, workletNode, stream, websocket, readyState,
                   recPc, inputPort>>
    /\ UNCHANGED <<ringVars, histVars, resVars>>

WsText(data) == WsTextWithin(data, MaxPort)

\* Lines 65-69 and 131-142: onmessage for a binary frame (handleAudioData).
\* new Float32Array(data) throws a RangeError when the byte length is not a
\* multiple of 4; nothing catches it, and the handler ends there.
WsBinaryWithin(data, cap) ==
    /\ readyState = "OPEN"
    /\ LET frame == [kind |-> "binary", data |-> data, before |-> status,
                     node |-> workletNode]
       IN IF workletNode = NULL
          THEN /\ Effects(<<>>, FALSE, "none", frame)
               /\ port' = port
          ELSE /\ Effects(IF status = "ready" THEN <<"processing">> ELSE <<>>,
                          FALSE, "none", frame)
               /\ IF data.extraBytes = 0
                  THEN /\ Len(port) < cap
                       /\ port' = Posted(port, BufferMsg(data.samples))
                  ELSE port' = port
    /\ UNCHANGED <<isRecording, audioContext, workletNode, stream, websocket, readyState,
                   connectPromise, timeoutArmed, initPc, recPc, inputPort>>
    /\ UNCHANGED <<ringVars, histVars, resVars>>

WsBinary(data) == WsBinaryWithin(data, MaxPort)

\* Lines 87-93: onerror.  The connection has failed (from CONNECTING or OPEN)
\* or is being failed by close() before it opened (FAILING); the close event
\* follows.
WsError ==
    /\ readyState \in {"CONNECTING", "OPEN", "FAILING"}
    /\ readyState' = "ERRORED"
    /\ timeoutArmed' = FALSE
    /\ Reject
    /\ Effects(<<"error">> \o RejectCalls, TRUE, "none", NoFrame)
    /\ UNCHANGED <<isRecording, audioContext, workletNode, stream, websocket, recPc>>
    /\ UNCHANGED <<ringVars, portVars, histVars, resVars>>

\* Lines 95-98: onclose: the server closed an open socket, or a close or a
\* failure has completed.
WsClose ==
    /\ readyState \in {"OPEN", "CLOSING", "ERRORED"}
    /\ readyState' = "CLOSED"
    /\ Effects(<<"disconnected">>, FALSE, "none", NoFrame)
    /\ UNCHANGED <<isRecording, audioContext, workletNode, stream, websocket,
                   connectPromise, timeoutArmed, initPc, recPc>>
    /\ UNCHANGED <<ringVars, portVars, histVars, resVars>>

\* Lines 144-165: startRecording() up to the await of getUserMedia (the await
\* of audioContext.resume() before it changes no field).
StartRecordingBegin ==
    /\ recPc = "idle"
    /\ recPc' = IF audioContext = NULL \/ websocket = NULL THEN "failed" ELSE "getUserMedia"
    /\ Effects(<<>>, FALSE, "none", NoFrame)
    /\ UNCHANGED <<isRecording, audioContext, workletNode, stream, websocket,
                   readyState, connectPromise, timeoutArmed, initPc>>
    /\ UNCHANGED <<ringVars, portVars, histVars, resVars>>

\* Lines 158-202: getUserMedia resolved.  createMediaStreamSource throws when
\* stop() has set audioContext to null meanwhile; otherwise the worklet node
\* is created (the PCMProcessor constructor runs, audio-processor.js lines
\* 2-9), connected to the destination, and recording is on.
StartRecordingGranted ==
    /\ recPc = "getUserMedia"
    /\ stream' = "stream"
    /\ streams' = streams + 1
    /\ IF audioContext = NULL
       THEN /\ recPc' = "failed"
            /\ UNCHANGED <<workletNode, nodes, isRecording, ringVars, portVars>>
       ELSE /\ recPc' = "done"
            /\ workletNode' = "node"
            /\ nodes' = nodes + 1
            /\ isRecording' = TRUE
            /\ buffer' = [i \in 0 .. bufferSize - 1 |-> 0]
            /\ writeIndex' = 0
            /\ readIndex' = 0
            /\ availableSamples' = 0
            /\ port' = <<>>
            /\ inputPort' = 0
    /\ Effects(<<>>, FALSE, "none", NoFrame)
    /\ UNCHANGED <<audioContext, websocket, readyState, connectPromise, timeoutArmed, initPc>>
    /\ UNCHANGED histVars

\* Lines 158-165: getUserMedia rejected.
StartRecordingDenied ==
    /\ recPc = "getUserMedia"
    /\ recPc' = "failed"
    /\ Effects(<<>>, FALSE, "none", NoFrame)
    /\ UNCHANGED <<isRecording, audioContext, workletNode, stream, websocket,
                   readyState, connectPromise, timeoutArmed, initPc>>
    /\ UNCHANGED <<ringVars, portVars, histVars, resVars>>

\* Lines 205-211: stopRecording() and resumeRecording().
SetRecording(on) ==
    /\ isRecording' = on
    /\ Effects(<<>>, FALSE, "none", NoFrame)
    /\ UNCHANGED <<audioContext, workletNode, stream, websocket, readyState,
                   connectPromise, timeoutArmed, initPc, recPc>>
    /\ UNCHANGED <<ringVars, portVars, histVars, resVars>>

StopRecording == SetRecording(FALSE)
ResumeRecording == SetRecording(TRUE)

\* Lines 214-244: sendCommand and its callers; interrupt() also posts 'clear'.
CanSend == websocket # NULL /\ readyState = "OPEN"

\* clearHistory() and setLiveTalkingSession() send like forceProcess().
Commands == {"interrupt", "force_process"}

SendCommand(command) ==
    /\ IF command = "interrupt" /\ workletNode # NULL
       THEN Len(port) < MaxPort /\ port' = Append(port, ClearMsg)
       ELSE port' = port
    /\ Effects(<<>>, FALSE, IF CanSend THEN command ELSE "none", NoFrame)
    /\ UNCHANGED <<isRecording, audioContext, workletNode, stream, websocket,
                   readyState, connectPromise, timeoutArmed, initPc, recPc, inputPort>>
    /\ UNCHANGED <<ringVars, histVars, resVars>>

\* Line 183: the activity callback is called for every captured frame.
ReportsActivityWhileRecording == isRecording
ReportsActivity == TRUE

\* Line 186: the frame is sent only while recording on an open socket.
SendsFrameWhilePaused == CanSend
SendsFrame == CanSend /\ isRecording

\* Lines 173-195: the main thread handles a captured frame.
HandleInput ==
    /\ inputPort > 0
    /\ inputPort' = inputPort - 1
    /\ Callbacks(<<>>, FALSE, IF SendsFrame THEN "audio" ELSE "none", NoFrame,
                 ReportsActivity)
    /\ UNCHANGED <<isRecording, audioContext, workletNode, stream, websocket,
                   readyState, connectPromise, timeoutArmed, initPc, recPc, port>>
    /\ UNCHANGED <<ringVars, histVars, resVars>>

\* Lines 249-257 and 169-172: a teardown releases the object a field refers
\* to, if it refers to one; n counts the objects of that kind still held.
ReleasedAlways(ref, n) == n - 1
Released(ref, n) == IF ref # NULL THEN n - 1 ELSE n

\* Line 269: the setStatus call of stop().
StopCallsNone == <<>>
StopCalls == <<"disconnected">>

\* Lines 246-270: stop().  close() on a socket that has not opened fails the
\* connection (an error event, then a close event); on an open socket it starts
\* the closing handshake.
Stop ==
    /\ isRecording' = FALSE
    /\ stream' = NULL
    /\ streams' = Released(stream, streams)
    /\ workletNode' = NULL
    /\ nodes' = Released(workletNode, nodes)
    /\ websocket' = NULL
    /\ readyState' = IF websocket = NULL THEN readyState
                     ELSE IF readyState = "CONNECTING" THEN "FAILING"
                     ELSE IF readyState = "OPEN" THEN "CLOSING"
                     ELSE readyState
    /\ audioContext' = NULL
    /\ Effects(StopCalls, FALSE, "none",
               [kind |-> "stop", data |-> <<>>, before |-> status, node |-> workletNode])
    /\ UNCHANGED <<connectPromise, timeoutArmed, initPc, recPc>>
    /\ UNCHANGED <<ringVars, portVars, histVars>>

\* The worklet handles the oldest message in flight.
PortDeliver ==
    /\ port # <<>>
    /\ WorkletMessage(Head(port))
    /\ port' = Tail(port)
    /\ UNCHANGED <<inputPort, mgrVars>>

\* Output frame size of the session's render callbacks (the ring buffer is
\* exercised with every frame size in SpecRing).
SessionFrames == {1}

\* A render callback of the connected worklet node; the microphone source
\* may feed it a captured frame.
SessionTick ==
    /\ workletNode # NULL
    /\ \E n \in SessionFrames, inp \in BOOLEAN : RenderTick(n, inp)
    /\ UNCHANGED mgrVars

Session ==
    \/ \E supported \in BOOLEAN : Initialize(supported)
    \/ AddModuleResolved
    \/ AddModuleRejected
    \/ ConnectTimeout
    \/ WsOpen
    \/ \E data \in TextMessages : WsText(data)
    \/ \E data \in WsPayloads : WsBinary(data)
    \/ WsError
    \/ WsClose
    \/ StartRecordingBegin
    \/ StartRecordingGranted
    \/ StartRecordingDenied
    \/ StopRecording
    \/ ResumeRecording
    \/ \E command \in Commands : SendCommand(command)
    \/ HandleInput
    \/ Stop
    \/ PortDeliver
    \/ SessionTick

Next == Session /\ UNCHANGED <<script, barge, live, compositor, app>>

(***************************************************************************)
(* Initial state: every object as its constructor leaves it.               *)
(***************************************************************************)
Init ==
    \* PCMProcessor constructor, audio-processor.js lines 2-9
    /\ buffer = [i \in 0 .. bufferSize - 1 |-> 0]
    /\ writeIndex = 0
    /\ readIndex = 0
    /\ availableSamples = 0
    /\ port = <<>>
    /\ inputPort = 0
    \* AudioManager field initialisers, audio-manager.ts lines 10-17
    /\ status = "disconnected"
    /\ isRecording = FALSE
    /\ audioContext = NULL
    /\ workletNode = NULL
    /\ stream = NULL
    /\ websocket = NULL
    /\ readyState = "NONE"
    /\ connectPromise = "none"
    /\ timeoutArmed = FALSE
    /\ initPc = "idle"
    /\ recPc = "idle"
    /\ streams = 0
    /\ nodes = 0
    /\ output = <<>>
    /\ notified = <<>>
    /\ errorCb = FALSE
    /\ sent = "none"
    /\ activity = FALSE
    /\ handled = NoFrame
    /\ cleared = FALSE
    /\ burst = <<>>
    /\ drained = <<>>
    /\ fifo = <<>>
    /\ script = [step |-> 0, data |-> <<>>, played |-> <<>>, node |-> FALSE]
    /\ barge = [phase |-> 0, before |-> 0, after |-> <<>>, played |-> <<>>,
               dropped |-> 0]
    \* LiveTalkingWebRTC field initialisers, lines 16-17
    /\ peerConnection = NULL
    /\ sessionId = 0
    /\ connPc = "idle"
    /\ connData = NoData
    /\ connects = 0
    /\ peers = 0
    /\ remoteSet = FALSE
    /\ iceComplete = FALSE
    /\ iceListener = FALSE
    /\ iceTimer = FALSE
    /\ liveCall = "none"
    /\ liveError = FALSE
    /\ liveReturn = "none"
    /\ liveValue = 0
    /\ request = "none"
    /\ requestId = 0
    /\ interrupts = 0
    \* WebGLVideoRenderer field initialisers, useTransparentVideo.ts 94-104
    /\ gl = NULL
    /\ programSBS = NoResource
    /\ programNormal = NoResource
    /\ texture = NoResource
    /\ vertexBuffer = NoResource
    /\ animationFrameId = 0
    /\ isInitialized = FALSE
    /\ isSideBySide = FALSE
    /\ formatDetected = FALSE
    /\ lastVideoWidth = 0
    /\ lastVideoHeight = 0
    \* a video element without data, a canvas of the default size
    /\ videoReady = FALSE
    /\ videoWidth = 0
    /\ videoHeight = 0
    /\ canvasWidth = 300
    /\ canvasHeight = 150
    /\ currentProgram = NoResource
    /\ gens = 0
    /\ deleted = {}
    /\ pendingFrames = {}
    \* useTransparentVideo, lines 346-349
    /\ rendererRef = FALSE
    /\ isWebGLActive = FALSE
    /\ hookSideBySide = FALSE
    /\ mounted = TRUE
    /\ formatTimers = 0
    /\ renderCall = "none"
    /\ startReturn = "none"
    /\ detected = FALSE
    /\ drawn = NoDraw
    /\ fallback = FALSE
    \* App: no call yet, App.tsx lines 79 and 86
    /\ callPc = "idle"
    /\ liveTalkingSessionId = 0
    /\ liveTalkingRef = FALSE
    /\ audioManager = FALSE
    /\ ended = FALSE

\* Spec: the whole session.
Spec == Init /\ [][Next]_vars

(***************************************************************************)
(* SpecRing: the processor on its own, driven by any interleaving of port  *)
(* messages and render callbacks.                                          *)
(***************************************************************************)
RingMessage ==
    /\ \E msg \in PortMessages : WorkletMessage(msg)
    /\ UNCHANGED <<portVars, mgrVars>>

RingTick ==
    /\ \E n \in FrameSizes : RenderTick(n, FALSE)
    /\ UNCHANGED mgrVars

NextRing == (RingMessage \/ RingTick) /\ UNCHANGED <<script, barge, live, compositor, app>>

SpecRing == Init /\ [][NextRing]_vars

(***************************************************************************)
(* Claims about the ring buffer.                                           *)
(***************************************************************************)
\* The unread region: availableSamples slots starting at readIndex.
RingContents ==
    [i \in 1 .. availableSamples |-> buffer[(readIndex + i - 1) % bufferSize]]

\* A step that is a render callback: the only steps that leave an output
\* frame, whose length is the n of the call.
IsTick == output' # <<>> /\ \E inp \in BOOLEAN : RenderTick(Len(output'), inp)

\* C1: in every reachable state 0 <= availableSamples <= bufferSize and both
\* cursors lie in [0, bufferSize).
C1_RingBounds ==
    /\ availableSamples \in 0 .. bufferSize
    /\ writeIndex \in 0 .. bufferSize - 1
    /\ readIndex \in 0 .. bufferSize - 1

\* C1 witness: the buffer is full and the write cursor has wrapped past the end.
C1_Witness ==
    /\ availableSamples = bufferSize
    /\ readIndex > 0
    /\ writeIndex = readIndex

C3_Underrun ==
    [][(IsTick /\ availableSamples < Len(output')) =>
           /\ output' = RingContents \o Zeros(Len(output') - availableSamples)
           /\ availableSamples' = 0]_vars

\* C3 witness: a callback has just delivered real samples followed by silence.
C3_Witness ==
    /\ Len(output) >= 3
    /\ output[1] # 0
    /\ output[2] # 0
    /\ output[Len(output)] = 0
    /\ availableSamples = 0
    /\ readIndex # 0

\* C4: a 'clear' sets availableSamples to 0, and every render callback after
\* it outputs only zeros until a 'buffer' message with at least one sample
\* has been applied.
C4_ClearSilences ==
    [][/\ WorkletMessage(ClearMsg) => availableSamples' = 0
       /\ (cleared /\ IsTick) => output' = Zeros(Len(output'))]_vars

\* C4 witness: a callback ran after a clear that discarded unread samples.
C4_Witness ==
    /\ cleared
    /\ output # <<>>
    /\ \E i \in 0 .. bufferSize - 1 : buffer[i] # 0

\* C5: the ring buffer behaves as a bounded FIFO queue.  fifo is that queue,
\* kept beside the program: a write appends the samples that fit, a clear
\* empties it, a read removes the oldest.  After every step the unread region
\* of the ring holds exactly the queue, in order, and every render callback
\* delivers the oldest queued samples in order, followed by silence.
C5_BoundedFifo ==
    [][/\ RingContents' = fifo'
       /\ IsTick => output' = FifoRead(fifo, Len(output'))]_vars

\* C5 witness: the unread region wraps around the end of the array and holds
\* two different samples.
C5_Witness ==
    /\ availableSamples >= 2
    /\ readIndex + availableSamples > bufferSize
    /\ \E i, j \in 1 .. availableSamples : RingContents[i] # RingContents[j]

(***************************************************************************)
(* SpecE2E: the end-to-end playback scenario, scaled to the model's ring:  *)
(* the session is initialised, the server signals readiness and sends one  *)
(* binary frame of E2ESamples samples, and the render thread drains it in  *)
(* E2ETicks callbacks of E2EFrame samples (4800 = 10 * 480 in the          *)
(* scenario).  startRecording(), which creates the worklet node, runs      *)
(* concurrently, as in App.tsx where it is called after initialize()       *)
(* resolves, and the microphone it opens feeds the worklet.  script        *)
(* records how far the scenario has come.                                  *)
(***************************************************************************)
E2ETicks == bufferSize \div E2EFrame
E2ESamples == E2EFrame * E2ETicks
E2EPayloads == {Ramp(E2ESamples, s) : s \in SampleValues}

E2EInitialize ==
    /\ script.step = 0
    /\ Initialize(TRUE)
    /\ script' = [script EXCEPT !.step = 1]

E2EConnect ==
    /\ AddModuleResolved \/ WsOpen
    /\ UNCHANGED script

E2EReady ==
    /\ script.step = 1
    /\ WsText(StatusMsg("ready"))
    /\ script' = [script EXCEPT !.step = 2]

E2ERecord ==
    /\ StartRecordingBegin \/ StartRecordingGranted
    /\ UNCHANGED script

E2EAudio ==
    /\ script.step = 2
    /\ \E d \in E2EPayloads :
          /\ WsBinary(Pcm(d))
          /\ script' = [script EXCEPT !.step = 3, !.data = d,
                                      !.node = workletNode # NULL]

E2EDeliver ==
    /\ PortDeliver
    /\ UNCHANGED script

\* The callbacks after the frame has reached the worklet are the scenario's
\* ticks; their output is what is played.
E2ETick ==
    /\ workletNode # NULL
    /\ \E inp \in BOOLEAN : RenderTick(E2EFrame, inp)
    /\ UNCHANGED mgrVars
    /\ script' = IF script.step >= 3 /\ script.step < 3 + E2ETicks /\ port = <<>>
                 THEN [script EXCEPT !.step = @ + 1, !.played = @ \o output']
                 ELSE script

\* The microphone is live meanwhile: captured frames reach the main thread.
E2ECapture ==
    /\ HandleInput
    /\ UNCHANGED script

E2EStep ==
    \/ E2EInitialize
    \/ E2EConnect
    \/ E2EReady
    \/ E2ERecord
    \/ E2EAudio
    \/ E2EDeliver
    \/ E2ETick
    \/ E2ECapture

NextE2E == E2EStep /\ UNCHANGED <<barge, live, compositor, app>>

SpecE2E == Init /\ [][NextE2E]_vars

(***************************************************************************)
(* Properties of the transport session.                                    *)
(***************************************************************************)
\* The frame the step just taken handled.
HandledText(data) == handled'.kind = "text" /\ handled'.data = data
HandledBinary == handled'.kind = "binary"

\* C6: whenever the status is 'ready' and a binary audio payload is received,
\* the status becomes 'processing' and the payload's samples are posted to
\* the playback ring buffer.
C6_BinaryStartsProcessing ==
    [][(HandledBinary /\ status = "ready")
          => /\ status' = "processing"
             /\ port' = Append(port, BufferMsg(handled'.data.samples))]_vars

\* C6, with the worklet node in place and a whole number of samples in the
\* payload: the same transition.
C6_WithNode ==
    [][(HandledBinary /\ status = "ready" /\ workletNode # NULL
            /\ handled'.data.extraBytes = 0)
          => /\ status' = "processing"
             /\ port' = Append(port, BufferMsg(handled'.data.samples))]_vars

\* C6: a payload received in 'ready' before startRecording() created the
\* worklet node has been dropped and the status is still 'ready'.
C6_Dropped ==
    /\ handled.kind = "binary"
    /\ handled.before = "ready"
    /\ workletNode = NULL
    /\ status = "ready"
    /\ port = <<>>

\* C7: from any status, the status message 'user_speaking' sets the status to
\* 'ready' and clears the playback ring buffer: a 'clear' is posted to the
\* worklet, or no worklet exists yet and nothing is queued for playback.
C7_BargeIn ==
    [][HandledText(StatusMsg("user_speaking"))
          => /\ status' = "ready"
             /\ IF workletNode # NULL
                THEN port' = Append(port, ClearMsg)
                ELSE port' = <<>> /\ availableSamples' = 0]_vars

\* C7 witness: 'user_speaking' arrived during 'processing' and the 'clear' is
\* on its way to the worklet, which holds unplayed samples.
C7_Witness ==
    /\ handled.kind = "text"
    /\ handled.data = StatusMsg("user_speaking")
    /\ handled.before = "processing"
    /\ status = "ready"
    /\ availableSamples > 0
    /\ port = <<ClearMsg>>

\* C8: when the status is 'processing' and the status message 'done' is
\* received, the status becomes 'ready'.
C8_DoneReady ==
    [][(HandledText(StatusMsg("done")) /\ status = "processing")
          => status' = "ready"]_vars

\* C8 witness: 'done' has just been handled in 'processing'.
C8_Witness ==
    /\ handled.kind = "text"
    /\ handled.data = StatusMsg("done")
    /\ handled.before = "processing"
    /\ status = "ready"

\* C9: the end-to-end scenario: initialize -> 'connecting'; 'ready' message ->
\* 'ready'; the binary frame -> 'processing' with all its samples available
\* once delivered; after the ticks nothing is available and what was played
\* is the frame, in order.
E2EHolds ==
    /\ script.step = 1 => status = "connecting"
    /\ script.step = 2 => status = "ready"
    /\ script.step >= 3 => status = "processing"
    /\ (script.step = 3 /\ port = <<>>) => availableSamples = E2ESamples
    /\ script.step = 3 + E2ETicks =>
          /\ availableSamples = 0
          /\ script.played = script.data

C9_EndToEnd == E2EHolds

\* C9, when startRecording() had created the worklet node before the frame
\* arrived: the scenario as stated.
C9_WhenRecording == script.node => E2EHolds

\* C9: the frame arrived in 'ready' before the worklet node existed: the
\* status is still 'ready' and no sample is available or on its way.
C9_Missed ==
    /\ script.step = 3
    /\ ~script.node
    /\ status = "ready"
    /\ port = <<>>
    /\ availableSamples = 0

\* C9: the scenario has been played to its end with the node in place.
C9_Played ==
    /\ script.step = 3 + E2ETicks
    /\ script.node
    /\ script.played = script.data

\* C10 as stated: the session moves from 'connecting' to 'ready' only on the
\* status message 'ready'.
C10_OnlyOnReady ==
    [][(status = "connecting" /\ status' = "ready")
          => HandledText(StatusMsg("ready"))]_vars

\* C10: initialize() first sets 'connecting'; the status moves from
\* 'connecting' to 'ready' only on a textual status message 'ready',
\* 'user_speaking' or 'done'; initialize() resolves only on 'ready', with the
\* status 'ready'; opening the socket changes neither.
C10_ReadyHandshake ==
    [][/\ (initPc = "idle" /\ initPc' # "idle") => notified'[1] = "connecting"
       /\ (status = "connecting" /\ status' = "ready")
             => \E m \in {"ready", "user_speaking", "done"} : HandledText(StatusMsg(m))
       /\ (initPc # "resolved" /\ initPc' = "resolved")
             => HandledText(StatusMsg("ready")) /\ status' = "ready"
       /\ (readyState = "CONNECTING" /\ readyState' = "OPEN")
             => UNCHANGED <<status, initPc, connectPromise>>]_vars

\* C10 witness: the 'ready' message arrived in 'connecting' on the open
\* socket and initialize() has resolved.
C10_Witness ==
    /\ handled.kind = "text"
    /\ handled.data = StatusMsg("ready")
    /\ handled.before = "connecting"
    /\ initPc = "resolved"
    /\ status = "ready"

\* The connect timeout has fired and nothing has closed the socket: only the
\* timeout rejects the promise while the socket is connecting or open.
TimedOut == connectPromise = "rejected" /\ readyState \in {"CONNECTING", "OPEN"}

\* C11: when the connect timeout fires before the readiness signal,
\* initialize() fails and the status is 'error'; from then on the status
\* stays 'error' until the session is closed, whatever arrives.
C11_TimeoutLeavesError ==
    [][/\ (ConnectTimeout /\ connectPromise = "pending")
             => initPc' = "rejected" /\ status' = "error"
       /\ (TimedOut /\ status = "error" /\ websocket' # NULL)
             => status' = "error"]_vars

\* C11, the timeout itself: initialize() fails and the status is 'error'.
C11_TimeoutFails ==
    [][(ConnectTimeout /\ connectPromise = "pending")
          => initPc' = "rejected" /\ status' = "error"]_vars

\* C11: after the timeout the socket opened and the readiness signal came:
\* initialize() has failed and the status is 'ready'.
C11_Revived ==
    /\ TimedOut
    /\ initPc = "rejected"
    /\ handled.data = StatusMsg("ready")
    /\ handled.before = "error"
    /\ status = "ready"

\* C12: a transport failure sets the status to 'error', and from then on no
\* socket event or inbound message changes the status or posts audio to the
\* worklet until stop() is called.
C12_ErrorInert ==
    [][/\ WsError => status' = "error"
       /\ (readyState = "ERRORED" /\ status = "error" /\ ~Stop)
             => /\ status' = "error"
                /\ handled'.kind = "none"]_vars

\* C12, what holds of it: the failure sets 'error', no inbound frame is
\* handled after it, and only the close event that follows it or stop()
\* changes the status.
C12_OnlyCloseFollows ==
    [][/\ WsError => status' = "error"
       /\ readyState \in {"ERRORED", "CLOSED"} => handled'.kind \notin {"text", "binary"}
       /\ (readyState = "ERRORED" /\ status' # status) => WsClose \/ Stop]_vars

\* C12: the open socket has just failed.
C12_Failed ==
    /\ readyState = "ERRORED"
    /\ websocket # NULL
    /\ errorCb
    /\ status = "error"
    /\ initPc = "resolved"

\* C13: stop() called in status 'error', 'ready' or 'processing' sets the
\* status to 'disconnected' and reports it to the status observer.
C13_StopDisconnects ==
    [][(Stop /\ status \in {"error", "ready", "processing"})
          => /\ status' = "disconnected"
             /\ notified' = <<"disconnected">>]_vars

\* C13 witness: stop() has just run in 'processing' and the observer was told
\* 'disconnected'.
C13_Witness ==
    /\ handled.kind = "stop"
    /\ handled.before = "processing"
    /\ status = "disconnected"
    /\ notified = <<"disconnected">>

\* Malformed textual frames: text that is not JSON, JSON null, and a value
\* that is no object with a known type.
Malformed == {d \in TextMessages : d.parse # "object" \/ d.type \notin {"status", "error"}}

\* C14: a malformed textual frame is dropped: the handler changes nothing of
\* the session (status, socket, promise, worklet queue), calls neither the
\* status observer nor the error callback and sends nothing, so the session
\* handles the next message as before.
C14_MalformedDropped ==
    [][\A d \in Malformed :
          HandledText(d)
             => /\ UNCHANGED <<mgrVars, portVars, ringVars>>
                /\ notified' = <<>>
                /\ ~errorCb'
                /\ sent' = "none"]_vars

\* C14 witness: text that is not JSON has just been handled during
\* 'processing' on the open socket.
C14_Witness ==
    /\ handled.kind = "text"
    /\ handled.data.parse = "invalid"
    /\ handled.before = "processing"
    /\ status = "processing"
    /\ readyState = "OPEN"
    /\ ~errorCb

\* C15: a captured frame is sent on the socket exactly when, as it is
\* handled, isRecording is true and the socket is OPEN; no other step sends
\* a capture frame.
C15_SendGate ==
    [][/\ HandleInput => (sent' = "audio" <=> (isRecording /\ readyState = "OPEN"))
       /\ sent' = "audio" => HandleInput]_vars

\* C15 witness: a frame has just been sent while recording on the open socket.
C15_Witness ==
    /\ sent = "audio"
    /\ isRecording
    /\ readyState = "OPEN"
    /\ websocket # NULL

\* C15: frames are withheld in every other state of the socket and after
\* stop(): a frame has just been handled and not sent.
C15_Withheld ==
    /\ activity
    /\ sent = "none"
    /\ readyState \in {"CLOSING", "CLOSED", "ERRORED"}

\* C16: stopRecording() and resumeRecording() leave the stream, the worklet
\* node, the audio context, the socket and the status as they are, and a
\* frame captured while paused is reported to onAudioActivity and not sent.
C16_PauseGatesOnly ==
    [][/\ (StopRecording \/ ResumeRecording)
             => /\ UNCHANGED <<stream, workletNode, audioContext, websocket,
                               readyState, status>>
                /\ notified' = <<>>
       /\ (HandleInput /\ ~isRecording) => (activity' /\ sent' = "none")]_vars

\* C16 witness: paused on an open socket with the capture graph in place, a
\* frame has just been reported and not sent.
C16_Witness ==
    /\ activity
    /\ ~isRecording
    /\ sent = "none"
    /\ readyState = "OPEN"
    /\ stream # NULL
    /\ workletNode # NULL
    /\ audioContext # NULL

(***************************************************************************)
(* LiveTalkingWebRTC: negotiation of the video session.                    *)
(***************************************************************************)
\* Session identifiers the server hands out, and the bodies of its answers
\* to the offer: code -1 reports an application-level failure.
SessionIds == {7, 42}
Bodies == [code : {-1, 0}, sessionid : SessionIds]

\* What one step of connect() or close() reports: the method it ran or
\* resumed, whether it called config.onError, how connect() settled and what
\* request it sent.  The offer carries no session id, and neither method
\* touches the requests of interrupt().
LiveEffects(call, err, ret, req) ==
    /\ liveCall' = call
    /\ liveError' = err
    /\ liveReturn' = ret
    /\ liveValue' = 0
    /\ request' = req
    /\ requestId' = 0
    /\ UNCHANGED interrupts

\* Lines 103-107: the catch of connect(): onError is called always.
NotifiesErrorNever == FALSE
NotifiesError == TRUE

\* Lines 103-107: the catch notifies the observer and rethrows.
Fail ==
    /\ connPc' = "rejected"
    /\ LiveEffects("connect", NotifiesError, "rejected", "none")

\* Lines 27-62: connect() up to the await of createOffer().  The object keeps
\* no reference to an earlier peer connection or to the timer of an earlier
\* wait, whose callback has nothing left to do.
Connect ==
    /\ connPc \in {"idle", "resolved", "rejected"}
    /\ connects < MaxConnects
    /\ connects' = connects + 1
    /\ peerConnection' = "pc"
    /\ peers' = peers + 1
    /\ remoteSet' = FALSE
    /\ iceComplete' = FALSE
    /\ iceListener' = FALSE
    /\ iceTimer' = FALSE
    /\ connPc' = "createOffer"
    /\ LiveEffects("connect", FALSE, "none", "none")
    /\ UNCHANGED <<sessionId, connData>>

\* Line 62-63: createOffer() resolved; setLocalDescription is called.  A
\* closed peer connection settles none of its operations successfully.
CreateOfferResolved ==
    /\ connPc = "createOffer"
    /\ peerConnection # NULL
    /\ connPc' = "setLocal"
    /\ LiveEffects("connect", FALSE, "none", "none")
    /\ UNCHANGED <<peerConnection, sessionId, connData, connects, peerVars>>

\* Lines 69-78: the offer is posted.  Evaluating the body reads
\* this.peerConnection.localDescription, which throws after close().
SendOffer ==
    IF peerConnection = NULL
    THEN Fail
    ELSE /\ connPc' = "fetch"
         /\ LiveEffects("connect", FALSE, "none", "offer")

\* Alternate of ArmsTimer: the wait sets no timer.
ArmsTimerNever == FALSE

\* Lines 130-133: waitForIceGathering() sets its timer whenever it has to
\* wait.
ArmsTimer == TRUE

\* Lines 63-66 and 113-134: setLocalDescription() resolved and
\* waitForIceGathering() runs: gathering is already complete (complete) and
\* the wait resolves at once, or the listener and the timer are set up.
SetLocalResolved(complete) ==
    /\ connPc = "setLocal"
    /\ peerConnection # NULL
    /\ iceComplete' = complete
    /\ IF complete
       THEN SendOffer /\ UNCHANGED <<iceListener, iceTimer>>
       ELSE /\ iceListener' = TRUE
            /\ iceTimer' = ArmsTimer
            /\ connPc' = "iceWait"
            /\ LiveEffects("connect", FALSE, "none", "none")
    /\ UNCHANGED <<peerConnection, sessionId, connData, connects, peers, remoteSet>>

\* Lines 120-125: the peer connection's gathering completes; checkState, if
\* still registered, removes itself and resolves the wait.
IceGatheringComplete ==
    /\ peerConnection # NULL
    /\ connPc \notin {"idle", "createOffer", "setLocal"}
    /\ ~iceComplete
    /\ iceComplete' = TRUE
    /\ iceListener' = FALSE
    /\ IF iceListener /\ connPc = "iceWait"
       THEN SendOffer
       ELSE LiveEffects("none", FALSE, "none", "none") /\ connPc' = connPc
    /\ UNCHANGED <<peerConnection, sessionId, connData, connects, peers, remoteSet,
                   iceTimer>>

\* Lines 130-133: the timer of the wait fires: the listener is removed and
\* the wait resolved, which does nothing if it was resolved before.
IceTimeout ==
    /\ iceTimer
    /\ iceTimer' = FALSE
    /\ iceListener' = FALSE
    /\ IF connPc = "iceWait"
       THEN SendOffer
       ELSE LiveEffects("none", FALSE, "none", "none") /\ connPc' = connPc
    /\ UNCHANGED <<peerConnection, sessionId, connData, connects, peers, remoteSet,
                   iceComplete>>

\* Lines 69-84: fetch() resolved with a response whose ok flag is ok.
FetchResolved(ok) ==
    /\ connPc = "fetch"
    /\ IF ok
       THEN /\ connPc' = "json"
            /\ LiveEffects("connect", FALSE, "none", "none")
       ELSE Fail
    /\ UNCHANGED <<peerConnection, sessionId, connData, connects, peerVars>>

\* Lines 84-96: response.json() resolved with body d; code -1 throws,
\* otherwise setRemoteDescription is called, which throws on the null
\* peerConnection after close().
JsonResolved(d) ==
    /\ connPc = "json"
    /\ connData' = d
    /\ IF d.code = -1 \/ peerConnection = NULL
       THEN Fail
       ELSE /\ connPc' = "setRemote"
            /\ LiveEffects("connect", FALSE, "none", "none")
    /\ UNCHANGED <<peerConnection, sessionId, connects, peerVars>>

\* Alternate of AssignedSessionId: the id is never taken from the body.
AssignedSessionIdNone(d) == 0

\* Line 98: the session id assigned from the response body.
AssignedSessionId(d) == d.sessionid

\* Lines 91-101: setRemoteDescription() resolved: the session id is taken
\* from the body and returned (line 101 returns this.sessionId).
SetRemoteResolved ==
    /\ connPc = "setRemote"
    /\ peerConnection # NULL
    /\ remoteSet' = TRUE
    /\ sessionId' = AssignedSessionId(connData)
    /\ connPc' = "resolved"
    /\ liveCall' = "connect"
    /\ liveError' = FALSE
    /\ liveReturn' = "resolved"
    /\ liveValue' = AssignedSessionId(connData)
    /\ request' = "none"
    /\ requestId' = 0
    /\ UNCHANGED interrupts
    /\ UNCHANGED <<peerConnection, connData, connects, peers, iceComplete, iceListener,
                   iceTimer>>

\* Lines 62-96: the awaited operation rejected (createOffer,
\* setLocalDescription, fetch, response.json or setRemoteDescription).
AwaitRejected ==
    /\ connPc \in {"createOffer", "setLocal", "fetch", "json", "setRemote"}
    /\ Fail
    /\ UNCHANGED <<peerConnection, sessionId, connData, connects, peerVars>>

\* Lines 140-142: getSessionId().
getSessionId == sessionId

\* Alternate of ClosedSessionId: close() leaves the session id as it is.
ClosedSessionIdKept == sessionId

\* Line 173: the session id close() writes.
ClosedSessionId == 0

\* Lines 168-175: close().
Close ==
    /\ peerConnection' = NULL
    /\ peers' = Released(peerConnection, peers)
    /\ sessionId' = ClosedSessionId
    /\ remoteSet' = FALSE
    /\ iceComplete' = FALSE
    /\ iceListener' = FALSE
    /\ LiveEffects("close", FALSE, "none", "none")
    /\ UNCHANGED <<connPc, connData, connects, iceTimer>>

\* Alternate of SendsInterrupt: the request goes out whatever the id.
SendsInterruptAlways == TRUE

\* Line 148: interrupt() returns at once while the session id is 0.
SendsInterrupt == sessionId # 0

\* Lines 147-159: interrupt() up to the await of fetch(): the request
\* carries this.sessionId.  With id 0 the call returns, its promise
\* resolved.
LiveInterrupt ==
    /\ liveCall' = "interrupt"
    /\ liveError' = FALSE
    /\ IF SendsInterrupt
       THEN /\ interrupts < MaxInterrupts
            /\ interrupts' = interrupts + 1
            /\ request' = "interrupt_talk"
            /\ requestId' = sessionId
            /\ liveReturn' = "none"
            /\ liveValue' = 0
       ELSE /\ interrupts' = interrupts
            /\ request' = "none"
            /\ requestId' = 0
            /\ liveReturn' = "resolved"
            /\ liveValue' = 0
    /\ UNCHANGED <<liveVars, peerVars>>

\* Lines 151-162: the fetch of interrupt() settled; a response of any
\* status (ok) is ignored and a rejection is caught and logged, so the
\* call resolves either way.
InterruptSettled(ok) ==
    /\ interrupts > 0
    /\ interrupts' = interrupts - 1
    /\ liveCall' = "interrupt"
    /\ liveError' = FALSE
    /\ liveReturn' = "resolved"
    /\ liveValue' = 0
    /\ request' = "none"
    /\ requestId' = 0
    /\ UNCHANGED <<liveVars, peerVars>>

Live ==
    \/ Connect
    \/ CreateOfferResolved
    \/ \E complete \in BOOLEAN : SetLocalResolved(complete)
    \/ IceGatheringComplete
    \/ IceTimeout
    \/ \E ok \in BOOLEAN : FetchResolved(ok)
    \/ \E d \in Bodies : JsonResolved(d)
    \/ SetRemoteResolved
    \/ AwaitRejected
    \/ Close
    \/ LiveInterrupt
    \/ \E ok \in BOOLEAN : InterruptSettled(ok)

NextLive == Live /\ UNCHANGED <<audio, compositor, app>>

\* SpecLive: the LiveTalkingWebRTC object on its own.
SpecLive == Init /\ [][NextLive]_vars

\* SpecLiveTimed: the same, with the event loop running a pending timer
\* callback (setTimeout, lines 130-133) once its delay has passed.
SpecLiveTimed == SpecLive /\ WF_vars(IceTimeout /\ UNCHANGED <<audio, compositor, app>>)

(***************************************************************************)
(* SpecEither: the audio session and the LiveTalkingWebRTC object, each    *)
(* run on its own from construction.  The two classes share no state, so   *)
(* what each can do does not depend on how far the other has come.         *)
(***************************************************************************)
AudioIdle == initPc = "idle" /\ recPc = "idle" /\ ~isRecording /\ handled.kind = "none"
LiveIdle == connects = 0 /\ liveCall = "none"

EitherAudio == LiveIdle /\ Session /\ UNCHANGED <<script, barge, live, compositor, app>>
EitherLive == AudioIdle /\ Live /\ UNCHANGED <<audio, compositor, app>>

NextEither == EitherAudio \/ EitherLive

SpecEither == Init /\ [][NextEither]_vars

\* C17: stop() and close() can be called in every state, and a call that
\* directly follows another call of the same method changes nothing of the
\* object or of what it holds.
C17_TeardownIdempotent ==
    /\ [][/\ (handled.kind = "stop" /\ Stop) => UNCHANGED <<mgrVars, portVars, ringVars>>
          /\ (liveCall = "close" /\ Close) => UNCHANGED <<liveVars, peerVars>>]_vars
    /\ [](ENABLED Stop /\ ENABLED Close)

\* C17 witness: stop() was called again while the socket of the stopped
\* session was still closing.
C17_Witness ==
    /\ handled.kind = "stop"
    /\ handled.before = "disconnected"
    /\ readyState = "CLOSING"
    /\ recPc = "done"
    /\ streams = 0
    /\ nodes = 0

\* C17: close() was called again after it had closed a connected session.
C17_ClosedTwice ==
    /\ liveCall = "close"
    /\ connPc = "resolved"
    /\ peerConnection = NULL
    /\ sessionId = 0
    /\ peers = 0

(***************************************************************************)
(* SpecCalls: the session driven by its public methods, in any order, and  *)
(* by the completions they wait for, without audio traffic.                *)
(* startRecording() may be called again once an earlier call has returned. *)
(***************************************************************************)
\* Lines 144-165: startRecording() called again after an earlier call has
\* returned or thrown.
StartRecordingAgain ==
    /\ recPc \in {"done", "failed"}
    /\ streams < MaxStreams
    /\ recPc' = IF audioContext = NULL \/ websocket = NULL THEN "failed" ELSE "getUserMedia"
    /\ Effects(<<>>, FALSE, "none", NoFrame)
    /\ UNCHANGED <<isRecording, audioContext, workletNode, stream, websocket,
                   readyState, connectPromise, timeoutArmed, initPc>>
    /\ UNCHANGED <<ringVars, portVars, histVars, resVars>>

Calls ==
    \/ \E supported \in BOOLEAN : Initialize(supported)
    \/ AddModuleResolved
    \/ AddModuleRejected
    \/ ConnectTimeout
    \/ WsOpen
    \/ WsText(StatusMsg("ready"))
    \/ WsError
    \/ WsClose
    \/ StartRecordingBegin
    \/ StartRecordingGranted
    \/ StartRecordingDenied
    \/ StartRecordingAgain
    \/ StopRecording
    \/ ResumeRecording
    \/ Stop

NextCalls == Calls /\ UNCHANGED <<script, barge, live, compositor, app>>

SpecCalls == Init /\ [][NextCalls]_vars

\* What stop() is to leave behind: no stream, node, audio context or socket
\* of the session still held.
AllReleased ==
    /\ streams = 0
    /\ nodes = 0
    /\ audioContext = NULL
    /\ websocket = NULL
    /\ readyState \notin {"CONNECTING", "OPEN"}

\* C18: after stop(), whatever calls came before, every resource the session
\* acquired has been released.
C18_StopReleasesAll == [][Stop => AllReleased']_vars

\* The fields refer to every stream and node the session holds.
AllReferenced ==
    /\ streams = IF stream # NULL THEN 1 ELSE 0
    /\ nodes = IF workletNode # NULL THEN 1 ELSE 0

\* C18, while the fields refer to everything the session holds: stop()
\* releases everything.
C18_WhenReferenced == [][(Stop /\ AllReferenced) => AllReleased']_vars

\* C18: stop() has run after startRecording() had succeeded twice: the first
\* stream and the first node are still held.
C18_Leaked ==
    /\ handled.kind = "stop"
    /\ stream = NULL
    /\ workletNode = NULL
    /\ streams = 1
    /\ nodes = 1

\* The ways negotiation fails: a response that is not ok, a body with code
\* -1, and an awaited step that rejects.
NegotiationFails ==
    \/ FetchResolved(FALSE)
    \/ \E d \in Bodies : d.code = -1 /\ JsonResolved(d)
    \/ AwaitRejected

\* C19: when negotiation fails, connect() rejects, the error observer is
\* notified, and the session id is left as it was: 0 if it was 0.
C19_FailureSurfaces ==
    [][NegotiationFails
          => /\ connPc' = "rejected"
             /\ liveReturn' = "rejected"
             /\ liveError'
             /\ sessionId' = sessionId
             /\ (connects = 1 => sessionId' = 0)]_vars

\* C19 witness: the body carried code -1: connect() has just rejected with
\* the observer notified and the session id 0.
C19_Witness ==
    /\ connPc = "rejected"
    /\ connData.code = -1
    /\ liveReturn = "rejected"
    /\ liveError
    /\ sessionId = 0
    /\ getSessionId = 0

\* C20: when negotiation succeeds with a body carrying session id s,
\* connect() resolves with s and getSessionId() returns s from then on, until
\* close() resets it or a later connect() succeeds; the id is assigned only
\* in the step that follows the applied remote answer.
C20_SessionIdOnSuccess ==
    [][/\ SetRemoteResolved
          => /\ connPc' = "resolved"
             /\ liveReturn' = "resolved"
             /\ liveValue' = connData.sessionid
             /\ getSessionId' = connData.sessionid
             /\ remoteSet'
       /\ sessionId' # sessionId
          => \/ Close /\ sessionId' = 0
             \/ SetRemoteResolved
       /\ (sessionId' # sessionId /\ sessionId' # 0)
          => connPc = "setRemote" /\ remoteSet' /\ peerConnection # NULL]_vars

\* C20 witness: connect() has just resolved with 42, the remote answer is
\* applied and getSessionId() returns 42.
C20_Witness ==
    /\ connPc = "resolved"
    /\ liveCall = "connect"
    /\ liveReturn = "resolved"
    /\ liveValue = 42
    /\ connData.sessionid = 42
    /\ getSessionId = 42
    /\ remoteSet

C21_ClosedWhileWaiting ==
    /\ liveCall = "close"
    /\ connPc \in {"iceWait", "fetch", "json", "setRemote"}
    /\ peerConnection = NULL
    /\ getSessionId = 0

\* C22: interrupt() is advisory.  With session id 0 it sends nothing; with a
\* non-zero id it sends one /interrupt_talk request carrying that id; however
\* the request ends the call resolves, and no step of interrupt() rejects,
\* notifies the error observer, or changes the session id or the connection.
C22_InterruptAdvisory ==
    [][/\ LiveInterrupt
          => /\ sessionId = 0
                => request' = "none" /\ interrupts' = interrupts
             /\ sessionId # 0
                => /\ request' = "interrupt_talk"
                   /\ requestId' = sessionId
                   /\ interrupts' = interrupts + 1
       /\ (\E ok \in BOOLEAN : InterruptSettled(ok))
          => liveReturn' = "resolved" /\ request' = "none"
       /\ liveCall' = "interrupt"
          => /\ liveReturn' # "rejected"
             /\ ~liveError'
             /\ UNCHANGED <<liveVars, peerVars>>]_vars

\* C22 witness: interrupt() has just sent its request with session id 42.
C22_Witness ==
    /\ liveCall = "interrupt"
    /\ request = "interrupt_talk"
    /\ requestId = 42
    /\ sessionId = 42
    /\ interrupts = 1

\* C22, the silent case: interrupt() has just returned without a request
\* because the session id is 0, on an object that was connected and closed.
C22_Silent ==
    /\ liveCall = "interrupt"
    /\ request = "none"
    /\ liveReturn = "resolved"
    /\ sessionId = 0
    /\ interrupts = 0
    /\ connPc = "resolved"

\* How far connect() has got, for comparing positions.
Rank(pc) ==
    CASE pc = "idle" -> 0
      [] pc = "createOffer" -> 1
      [] pc = "setLocal" -> 2
      [] pc = "iceWait" -> 3
      [] pc = "fetch" -> 4
      [] pc = "json" -> 5
      [] pc = "setRemote" -> 6
      [] OTHER -> 7

\* C23: the offer goes out only in a step where gathering is complete or
\* the timer of the wait fires; connect() only moves forward and the offer
\* goes out exactly in the step that takes it past the wait, so once per
\* connect(), and the later of completion and timeout sends nothing; and the
\* wait always ends.
C23_OfferAfterGathering ==
    /\ [][/\ request' = "offer"
             => /\ iceComplete' \/ (iceTimer /\ ~iceTimer')
                /\ Rank(connPc) \in {2, 3}
          /\ (Rank(connPc) < 4 /\ connPc' = "fetch") <=> request' = "offer"
          /\ connPc' # connPc
             => \/ Rank(connPc') > Rank(connPc)
                \/ Connect
          /\ ((IceTimeout \/ IceGatheringComplete) /\ connPc # "iceWait")
             => request' = "none" /\ connPc' = connPc]_vars
    /\ (connPc = "iceWait") ~> (connPc # "iceWait")

\* C23 witness: gathering did not complete, the timer fired and the offer
\* has just gone out.
C23_Witness ==
    /\ connPc = "fetch"
    /\ request = "offer"
    /\ ~iceComplete
    /\ ~iceTimer
    /\ peerConnection # NULL

\* C23, both events: gathering completed and sent the offer, and the timer
\* has just fired afterwards without a second request.
C23_Both ==
    /\ iceComplete
    /\ ~iceTimer
    /\ ~iceListener
    /\ liveCall = "none"
    /\ request = "none"
    /\ connPc \in {"fetch", "json", "setRemote", "resolved"}

\* ---------------------------------------------------------------------------
\* WebGLVideoRenderer and useTransparentVideo
\* (src/s2s-client/src/hooks/useTransparentVideo.ts)
\* ---------------------------------------------------------------------------

\* Dimensions the video element reports: none yet, 4:3, 16:9, exactly 1.8,
\* and 2:1.
VideoSizes == {<<0, 0>>, <<640, 480>>, <<480, 270>>, <<1152, 640>>, <<1280, 640>>}

\* How init() ends: it returns false without a context (line 124), without
\* a shader (134, 139) or without one of the programs (145).
InitOutcomes == {"ok", "noContext", "noShader", "noProgramSBS", "noProgramNormal"}

\* Alternate of Classify: the threshold itself counts as side-by-side.
ClassifyAtLeast(w, h) == 5 * w >= 9 * h

\* Lines 245-247: aspectRatio > 1.8.  For dimensions below 2^31 the quotient
\* of the two integers differs from 1.8 by at least 1/(5h) unless it equals
\* it, far more than the rounding of the division, and 9/5 rounds to the
\* same double as the literal 1.8: the comparison decides 5w > 9h.
Classify(w, h) == 5 * w > 9 * h

\* Alternate of Detects: detection runs on every frame with dimensions.
DetectsAlways ==
    videoWidth > 0 /\ videoHeight > 0

\* Lines 231-240: detection runs when the video has dimensions and they are
\* not the detected ones.
Detects ==
    /\ videoWidth > 0
    /\ videoHeight > 0
    /\ ~(formatDetected /\ videoWidth = lastVideoWidth /\ videoHeight = lastVideoHeight)

\* Lines 230-265: checkSideBySide() with the programs sbs and normal in the
\* fields.  The canvas width attribute takes the integer part.
checkSideBySide(sbs, normal) ==
    IF Detects
    THEN /\ lastVideoWidth' = videoWidth
         /\ lastVideoHeight' = videoHeight
         /\ isSideBySide' = Classify(videoWidth, videoHeight)
         /\ canvasWidth' = IF isSideBySide' THEN videoWidth \div 2 ELSE videoWidth
         /\ canvasHeight' = videoHeight
         /\ currentProgram' = IF isSideBySide' THEN sbs ELSE normal
         /\ formatDetected' = TRUE
         /\ detected' = TRUE
    ELSE /\ UNCHANGED detVars
         /\ detected' = FALSE

\* requestAnimationFrame returns an id that no pending callback has; the
\* renderer never holds the id of a callback that has run, so the smallest
\* free one stands for a fresh one.
NewFrame(pending) == CHOOSE id \in 1..(MaxLoops + 1) : id \notin pending

\* Lines 267-300: render() while the callbacks in pending wait, with
\* isInitialized = inited and the programs sbs and normal in the fields.
\* Every path ends by requesting the next frame.
render(inited, sbs, normal, pending) ==
    /\ IF inited /\ videoReady
       THEN /\ checkSideBySide(sbs, normal)
            /\ drawn' = IF formatDetected'
                        THEN [frame |-> TRUE, program |-> currentProgram',
                              sideBySide |-> isSideBySide']
                        ELSE NoDraw
       ELSE /\ UNCHANGED detVars
            /\ detected' = FALSE
            /\ drawn' = NoDraw
    /\ animationFrameId' = NewFrame(pending)
    /\ pendingFrames' = pending \cup {NewFrame(pending)}

\* Alternate of NeedsInit: start() initializes every time.
NeedsInitAlways == TRUE

\* Line 303: start() calls init() only when not initialized.
NeedsInit == ~isInitialized

\* Lines 115-176: init() ending as outcome, its resources made in round g.
init(outcome, g) ==
    /\ gl' = IF outcome = "noContext" THEN gl ELSE "gl"
    /\ IF outcome \in {"ok", "noProgramSBS", "noProgramNormal"}
       THEN /\ programSBS' = IF outcome = "noProgramSBS"
                              THEN NoResource ELSE Resource("sbs", g)
            /\ programNormal' = IF outcome = "noProgramNormal"
                                 THEN NoResource ELSE Resource("normal", g)
            /\ gens' = g
       ELSE UNCHANGED <<programSBS, programNormal, gens>>
    /\ IF outcome = "ok"
       THEN /\ vertexBuffer' = Resource("buffer", g)
            /\ texture' = Resource("texture", g)
            /\ isInitialized' = TRUE
       ELSE UNCHANGED <<vertexBuffer, texture, isInitialized>>

\* Lines 302-309: start(), init() ending as outcome if it is called.
start(outcome) ==
    /\ IF NeedsInit
       THEN gens < MaxInits /\ init(outcome, gens + 1)
       ELSE outcome = "ok" /\ UNCHANGED glVars
    /\ IF isInitialized'
       THEN /\ Cardinality(pendingFrames) < MaxLoops
            /\ render(TRUE, programSBS', programNormal', pendingFrames)
            /\ startReturn' = "true"
       ELSE /\ UNCHANGED <<detVars, loopVars>>
            /\ detected' = FALSE
            /\ drawn' = NoDraw
            /\ startReturn' = "false"
    /\ UNCHANGED <<videoVars, deleted>>

\* Alternate of Cancels: stop() cancels nothing.
CancelsNothing(pending) == pending

\* Lines 312-313: cancelAnimationFrame of the stored id, if there is one.
Cancels(pending) ==
    IF animationFrameId # 0 THEN pending \ {animationFrameId} ELSE pending

\* Lines 311-317: stop().
stop ==
    /\ pendingFrames' = Cancels(pendingFrames)
    /\ animationFrameId' = 0

\* The resources destroy() deletes: those in non-null fields, lines 322-325.
Deletes ==
    IF gl = NULL
    THEN {}
    ELSE {texture, vertexBuffer, programSBS, programNormal} \ {NoResource}

\* Lines 319-328: destroy().  A deleted program stays the current one.
destroy ==
    /\ stop
    /\ deleted' = deleted \cup Deletes
    /\ isInitialized' = FALSE
    /\ UNCHANGED <<gl, programSBS, programNormal, texture, vertexBuffer, gens>>
    /\ UNCHANGED <<detVars, videoVars>>

\* What a step of the renderer reports.
RenderEffects(call) ==
    /\ renderCall' = call
    /\ fallback' = FALSE

\* start() called on the renderer.
RendererStart(outcome) ==
    /\ start(outcome)
    /\ RenderEffects("start")
    /\ UNCHANGED hookVars

\* stop() called on the renderer.
RendererStop ==
    /\ stop
    /\ RenderEffects("stop")
    /\ startReturn' = "none"
    /\ detected' = FALSE
    /\ drawn' = NoDraw
    /\ UNCHANGED <<glVars, detVars, videoVars, deleted, hookVars>>

\* destroy() called on the renderer.
RendererDestroy ==
    /\ destroy
    /\ RenderEffects("destroy")
    /\ startReturn' = "none"
    /\ detected' = FALSE
    /\ drawn' = NoDraw
    /\ UNCHANGED hookVars

\* The browser runs the pending frame callback id: render(), line 267.
FrameCallback(id) ==
    /\ id \in pendingFrames
    /\ render(isInitialized, programSBS, programNormal, pendingFrames \ {id})
    /\ RenderEffects("render")
    /\ startReturn' = "none"
    /\ UNCHANGED <<glVars, videoVars, deleted, hookVars>>

\* The video element gets data or loses it, or its dimensions change.
VideoChange(size, ready) ==
    /\ <<videoWidth, videoHeight, videoReady>> # <<size[1], size[2], ready>>
    /\ videoWidth' = size[1]
    /\ videoHeight' = size[2]
    /\ videoReady' = ready
    /\ RenderEffects("video")
    /\ startReturn' = "none"
    /\ detected' = FALSE
    /\ drawn' = NoDraw
    /\ UNCHANGED <<glVars, detVars, loopVars, deleted, hookVars>>

Renderer ==
    \/ \E outcome \in InitOutcomes : RendererStart(outcome)
    \/ RendererStop
    \/ RendererDestroy
    \/ \E id \in 1..(MaxLoops + 1) : FrameCallback(id)
    \/ \E size \in VideoSizes, ready \in BOOLEAN : VideoChange(size, ready)

NextRender == Renderer /\ UNCHANGED <<audio, live, app>>

\* SpecRender: one WebGLVideoRenderer driven through its public methods.
SpecRender == Init /\ [][NextRender]_vars

\* C24: whenever layout detection runs on a video of width w and height h,
\* it stores side-by-side exactly when w/h > 1.8: 640x480 and 480x270 are
\* stored as plain video, and so is the ratio 1.8 itself.
C24_Classification ==
    [][detected'
          => /\ videoWidth > 0 /\ videoHeight > 0
             /\ isSideBySide' <=> (10 * videoWidth > 18 * videoHeight)
             /\ <<videoWidth, videoHeight>> \in {<<640, 480>>, <<480, 270>>,
                                                <<1152, 640>>}
                => ~isSideBySide'
             /\ <<videoWidth, videoHeight>> = <<1280, 640>> => isSideBySide']_vars

\* C24 witness: detection has just classified 480x270 as plain video.
C24_Witness ==
    /\ detected
    /\ lastVideoWidth = 480
    /\ lastVideoHeight = 270
    /\ ~isSideBySide
    /\ currentProgram = programNormal

\* C24, the other side: detection has just classified 1280x640 as
\* side-by-side.
C24_SideBySide ==
    /\ detected
    /\ lastVideoWidth = 1280
    /\ lastVideoHeight = 640
    /\ isSideBySide
    /\ canvasWidth = 640

\* The step ran render() as far as checkSideBySide() on a video with
\* dimensions.
RanCheck ==
    /\ renderCall' \in {"render", "start"}
    /\ renderCall' = "start" => startReturn' = "true"
    /\ isInitialized'
    /\ videoReady
    /\ videoWidth > 0
    /\ videoHeight > 0

\* C25: a render tick on the dimensions of the previous detection runs no
\* detection: nothing is classified, resized or selected; the first tick on
\* other dimensions runs it; and the cached isSideBySide is always the
\* classification of the dimensions seen last.
C25_DetectionCached ==
    /\ [][RanCheck
             => IF formatDetected /\ videoWidth = lastVideoWidth
                                  /\ videoHeight = lastVideoHeight
                THEN ~detected' /\ UNCHANGED detVars
                ELSE /\ detected'
                     /\ lastVideoWidth' = videoWidth
                     /\ lastVideoHeight' = videoHeight
                     /\ formatDetected']_vars
    /\ [][~RanCheck => ~detected' /\ UNCHANGED detVars]_vars
    /\ [](formatDetected
             => isSideBySide = (10 * lastVideoWidth > 18 * lastVideoHeight))

\* C25 witness: a tick has just drawn a frame of the detected dimensions
\* without running detection.
C25_Witness ==
    /\ renderCall = "render"
    /\ drawn.frame
    /\ ~detected
    /\ formatDetected
    /\ videoWidth = lastVideoWidth
    /\ videoHeight = lastVideoHeight

\* C25, a detection: a tick has just detected 640x480, selecting the plain
\* program and sizing the canvas.
C25_Redetected ==
    /\ renderCall = "render"
    /\ detected
    /\ ~isSideBySide
    /\ lastVideoWidth = 640
    /\ currentProgram = programNormal
    /\ canvasWidth = 640
    /\ canvasHeight = 480

\* Lines 351-377: startRendering() with the option enabled as given and
\* init() ending as outcome.  Without the option or the elements it returns
\* at once; otherwise it creates the renderer if there is none, calls
\* start(), and either sets isWebGLActive and a 1000 ms timer or clears
\* isWebGLActive and calls onFallback.
StartRendering(enabled, outcome) ==
    /\ renderCall' = "startRendering"
    /\ IF ~enabled \/ ~mounted
       THEN /\ outcome = "ok"
            /\ startReturn' = "none"
            /\ detected' = FALSE
            /\ drawn' = NoDraw
            /\ fallback' = FALSE
            /\ UNCHANGED <<glVars, detVars, loopVars, videoVars, deleted, hookVars>>
       ELSE /\ rendererRef' = TRUE
            /\ start(outcome)
            /\ IF startReturn' = "true"
               THEN /\ formatTimers < MaxTimers
                    /\ formatTimers' = formatTimers + 1
                    /\ isWebGLActive' = TRUE
                    /\ fallback' = FALSE
               ELSE /\ formatTimers' = formatTimers
                    /\ isWebGLActive' = FALSE
                    /\ fallback' = TRUE
            /\ UNCHANGED <<hookSideBySide, mounted>>

\* Lines 379-385: stopRendering().
StopRendering ==
    /\ renderCall' = "stopRendering"
    /\ IF rendererRef THEN stop ELSE UNCHANGED loopVars
    /\ isWebGLActive' = FALSE
    /\ hookSideBySide' = FALSE
    /\ startReturn' = "none"
    /\ detected' = FALSE
    /\ drawn' = NoDraw
    /\ fallback' = FALSE
    /\ UNCHANGED <<glVars, detVars, videoVars, deleted, rendererRef, mounted,
                   formatTimers>>

\* Lines 367-371: the timer of startRendering() fires and copies the
\* renderer's isSideBySide into the state, if there is a renderer.
FormatTimer ==
    /\ formatTimers > 0
    /\ formatTimers' = formatTimers - 1
    /\ hookSideBySide' = IF rendererRef THEN isSideBySide ELSE hookSideBySide
    /\ renderCall' = "timer"
    /\ startReturn' = "none"
    /\ detected' = FALSE
    /\ drawn' = NoDraw
    /\ fallback' = FALSE
    /\ UNCHANGED <<glVars, detVars, loopVars, videoVars, deleted, rendererRef,
                   isWebGLActive, mounted>>

\* Lines 388-395: the cleanup of the effect at unmount: the renderer, if
\* any, is destroyed and forgotten; the element refs are cleared.
Cleanup ==
    /\ mounted
    /\ mounted' = FALSE
    /\ rendererRef' = FALSE
    /\ IF rendererRef
       THEN destroy
       ELSE UNCHANGED <<glVars, detVars, loopVars, videoVars, deleted>>
    /\ renderCall' = "cleanup"
    /\ startReturn' = "none"
    /\ detected' = FALSE
    /\ drawn' = NoDraw
    /\ fallback' = FALSE
    /\ UNCHANGED <<isWebGLActive, hookSideBySide, formatTimers>>

Hook ==
    \/ \E enabled \in BOOLEAN, outcome \in InitOutcomes : StartRendering(enabled, outcome)
    \/ StopRendering
    \/ FormatTimer
    \/ Cleanup
    \/ \E id \in 1..(MaxLoops + 1) : FrameCallback(id)
    \/ \E size \in VideoSizes, ready \in BOOLEAN : VideoChange(size, ready)

NextHook == Hook /\ UNCHANGED <<audio, live, app>>

\* SpecHook: the renderer as the useTransparentVideo hook drives it.
SpecHook == Init /\ [][NextHook]_vars

\* C26: start() initializes only when the renderer is not initialized and
\* returns whether it is initialized afterwards.  When it returns false no
\* frame callback is scheduled or pending, nothing is drawn, and the hook
\* clears isWebGLActive and calls onFallback; when it returns true one more
\* frame callback is pending, its id stored, and the hook sets isWebGLActive.
C26_StartReports ==
    [][(renderCall' = "startRendering" /\ startReturn' # "none")
          => /\ isInitialized => UNCHANGED glVars
             /\ startReturn' = "true" <=> isInitialized'
             /\ startReturn' = "false"
                => /\ ~isInitialized
                   /\ UNCHANGED loopVars
                   /\ pendingFrames' = {}
                   /\ ~drawn'.frame
                   /\ ~isWebGLActive'
                   /\ fallback'
             /\ startReturn' = "true"
                => /\ animationFrameId' \in pendingFrames'
                   /\ animationFrameId' \notin pendingFrames
                   /\ pendingFrames' = pendingFrames \cup {animationFrameId'}
                   /\ isWebGLActive'
                   /\ ~fallback']_vars

\* C26 witness: init() found no context: start() has just returned false,
\* no frame callback is pending, and the hook fell back.
C26_Witness ==
    /\ renderCall = "startRendering"
    /\ startReturn = "false"
    /\ gl = NULL
    /\ ~isInitialized
    /\ pendingFrames = {}
    /\ ~isWebGLActive
    /\ fallback

\* C26, success on an initialized renderer: start() has just returned true
\* a second time with the resources of the first round still in place.
C26_Restarted ==
    /\ renderCall = "startRendering"
    /\ startReturn = "true"
    /\ isInitialized
    /\ gens = 1
    /\ Cardinality(pendingFrames) = 2
    /\ isWebGLActive

\* C27: stop() halts the render loop and keeps the resources: after it no
\* frame callback is pending, whatever start() and stop() calls came
\* before, and it leaves the graphics fields as they are, so that the next
\* start() goes on without initializing.
C27_StopHalts ==
    [][(renderCall' = "stopRendering" /\ rendererRef)
          => /\ pendingFrames' = {}
             /\ UNCHANGED <<glVars, deleted>>]_vars

\* C27, one loop: when no frame callback is pending but the one whose id is
\* stored, stop() leaves none and keeps the resources, and a start() on the
\* initialized renderer creates nothing.
C27_SingleLoopHalts ==
    [][/\ (renderCall' = "stopRendering" /\ rendererRef
              /\ pendingFrames \subseteq {animationFrameId})
          => /\ pendingFrames' = {}
             /\ UNCHANGED <<glVars, deleted>>
       /\ (renderCall' = "startRendering" /\ isInitialized)
          => UNCHANGED <<glVars, deleted>>]_vars

\* C27 witness of the failure: start() ran twice, stop() has cancelled the
\* later callback only, and the earlier one is still pending.
C27_StillPending ==
    /\ renderCall = "stopRendering"
    /\ rendererRef
    /\ animationFrameId = 0
    /\ pendingFrames # {}
    /\ ~isWebGLActive

\* C27, the loop goes on: after stopRendering() and with no start() since,
\* a frame callback has just drawn a frame.
C27_DrawnWhileStopped ==
    /\ renderCall = "render"
    /\ drawn.frame
    /\ mounted
    /\ ~isWebGLActive

\* C28: whenever a frame is drawn, the program in use has not been deleted
\* and is the renderer's program for the detected layout: programSBS if
\* isSideBySide, programNormal otherwise.
C28_DrawsWithLiveProgram ==
    drawn.frame
        => /\ drawn.program \notin deleted
           /\ drawn.sideBySide = isSideBySide
           /\ drawn.program = IF isSideBySide THEN programSBS ELSE programNormal

\* C28 witness of the failure: after destroy() and start() on unchanged
\* dimensions a frame has just been drawn with the deleted program of the
\* first round in use, while the fields hold the programs of the second.
C28_StaleProgram ==
    /\ drawn.frame
    /\ isInitialized
    /\ drawn.program \in deleted
    /\ drawn.program.gen < gens
    /\ programSBS.gen = gens
    /\ programNormal.gen = gens
    /\ videoWidth = lastVideoWidth
    /\ videoHeight = lastVideoHeight

\* C28, without start() after destroy(): as long as nothing has been
\* deleted, every frame is drawn with the live program of the layout.
C28_LiveUntilDestroyed ==
    (drawn.frame /\ deleted = {})
        => /\ drawn.sideBySide = isSideBySide
           /\ drawn.program = IF isSideBySide THEN programSBS ELSE programNormal
           /\ drawn.program # NoResource

\* ---------------------------------------------------------------------------
\* App: startCall() and endCall()  (src/s2s-client/src/App.tsx)
\* ---------------------------------------------------------------------------

\* startCall() resumes as soon as the promise it awaits has settled, before
\* any other event is handled.
Resuming ==
    \/ callPc = "video" /\ connPc \in {"resolved", "rejected"}
    \/ callPc = "init" /\ initPc \in {"resolved", "rejected"}
    \/ callPc \in {"session", "starting"}
    \/ callPc = "record" /\ recPc \in {"done", "failed"}

\* Lines 121-155 with LIVETALKING_ENABLED: startCall() creates the
\* LiveTalkingWebRTC object and awaits its connect().
StartCallVideo ==
    /\ callPc = "idle"
    /\ Connect
    /\ callPc' = "video"
    /\ UNCHANGED <<liveTalkingSessionId, liveTalkingRef, audioManager, ended>>
    /\ UNCHANGED <<audio, compositor>>

\* Lines 155-174: connect() has settled.  Resolved, its value is kept and the
\* object stored in liveTalkingRef; rejected, the catch only logs.  Either
\* way the AudioManager is created and initialize() awaited.
AfterConnect(supported) ==
    /\ callPc = "video"
    /\ connPc \in {"resolved", "rejected"}
    /\ liveTalkingSessionId' = IF connPc = "resolved" THEN liveValue ELSE 0
    /\ liveTalkingRef' = (connPc = "resolved")
    /\ Initialize(supported)
    /\ callPc' = "init"
    /\ UNCHANGED <<audioManager, ended, script, barge, live, compositor>>

\* Lines 121-128 and 164-174 without LIVETALKING_ENABLED: startCall() goes
\* straight to the AudioManager.
StartCallAudio(supported) ==
    /\ callPc = "idle"
    /\ Initialize(supported)
    /\ callPc' = "init"
    /\ UNCHANGED <<liveTalkingSessionId, liveTalkingRef, audioManager, ended>>
    /\ UNCHANGED <<script, barge, live, compositor>>

\* Lines 174-187: initialize() has settled; rejected, the catch reports the
\* failure and the manager is dropped.
AfterInitialize ==
    /\ callPc = "init"
    /\ initPc \in {"resolved", "rejected"}
    /\ callPc' = IF initPc = "rejected" THEN "failed" ELSE "session"
    /\ UNCHANGED <<liveTalkingSessionId, liveTalkingRef, audioManager, ended>>
    /\ UNCHANGED <<audio, live, compositor>>

\* Alternate of NotifiesSession: the session is announced whatever the id.
NotifiesSessionAlways == TRUE

\* Line 177: the server is told the session id only if it is positive.
NotifiesSession == liveTalkingSessionId > 0

\* Lines 177-179: setLiveTalkingSession(liveTalkingSessionId), which sends
\* the set_livetalking_session command (audio-manager.ts 237-244).
AnnounceSession ==
    /\ callPc = "session"
    /\ IF NotifiesSession
       THEN SendCommand("set_livetalking_session")
       ELSE UNCHANGED <<mgrVars, ringVars, portVars, histVars, outVars>>
    /\ callPc' = "starting"
    /\ UNCHANGED <<liveTalkingSessionId, liveTalkingRef, audioManager, ended>>
    /\ UNCHANGED <<script, barge, live, compositor>>

\* Line 181: startRecording() is called and awaited.
CallStartRecording ==
    /\ callPc = "starting"
    /\ StartRecordingBegin
    /\ callPc' = "record"
    /\ UNCHANGED <<liveTalkingSessionId, liveTalkingRef, audioManager, ended>>
    /\ UNCHANGED <<script, barge, live, compositor>>

\* Lines 181-187: startRecording() has settled; resolved, the manager is
\* stored in the audioManager state; rejected, the catch reports the failure
\* and the manager is dropped.
AfterStartRecording ==
    /\ callPc = "record"
    /\ recPc \in {"done", "failed"}
    /\ callPc' = IF recPc = "done" THEN "done" ELSE "failed"
    /\ audioManager' = (recPc = "done")
    /\ UNCHANGED <<liveTalkingSessionId, liveTalkingRef, ended>>
    /\ UNCHANGED <<audio, live, compositor>>

\* The negotiation of connect() and the late events of its wait.
CallVideoEvent ==
    /\ ~Resuming
    /\ \/ CreateOfferResolved
       \/ \E complete \in BOOLEAN : SetLocalResolved(complete)
       \/ IceGatheringComplete
       \/ IceTimeout
       \/ \E ok \in BOOLEAN : FetchResolved(ok)
       \/ \E d \in Bodies : JsonResolved(d)
       \/ SetRemoteResolved
       \/ AwaitRejected
    /\ UNCHANGED <<audio, compositor, app>>

\* The events of the audio session: the module load, the socket, the
\* connect timeout and the microphone permission.
CallAudioEvent ==
    /\ ~Resuming
    /\ \/ AddModuleResolved
       \/ AddModuleRejected
       \/ ConnectTimeout
       \/ WsOpen
       \/ WsText(StatusMsg("ready"))
       \/ WsError
       \/ WsClose
       \/ StartRecordingGranted
       \/ StartRecordingDenied
    /\ UNCHANGED <<script, barge, live, compositor, app>>

\* Lines 190-207: endCall(), once the call attempt is over: the stored
\* manager is stopped, rendering is stopped, the stored LiveTalkingWebRTC
\* object is closed, and both references are cleared.
EndCall ==
    /\ callPc \in {"done", "failed"}
    /\ ~ended
    /\ ~Resuming
    /\ IF audioManager THEN Stop ELSE UNCHANGED <<audio>>
    /\ StopRendering
    /\ IF liveTalkingRef THEN Close ELSE UNCHANGED live
    /\ audioManager' = FALSE
    /\ liveTalkingRef' = FALSE
    /\ ended' = TRUE
    /\ UNCHANGED <<callPc, liveTalkingSessionId, script, barge>>

NextApp ==
    \/ StartCallVideo
    \/ \E supported \in BOOLEAN : AfterConnect(supported)
    \/ \E supported \in BOOLEAN : StartCallAudio(supported)
    \/ AfterInitialize
    \/ AnnounceSession
    \/ CallStartRecording
    \/ AfterStartRecording
    \/ CallVideoEvent
    \/ CallAudioEvent
    \/ EndCall

\* SpecApp: one call attempt of the App and the endCall() after it.
SpecApp == Init /\ [][NextApp]_vars

\* C29: a failed connect() does not stop the call: the step that resumes
\* startCall() after the rejection calls initialize() with no session id
\* kept and nothing stored in liveTalkingRef; when initialize() has resolved
\* startRecording() is called; and set_livetalking_session is sent only with
\* a positive id, which only a resolved connect() provides.
C29_AudioProceeds ==
    /\ [][/\ (callPc = "video" /\ connPc = "rejected" /\ callPc' # callPc)
             => /\ callPc' = "init"
                /\ initPc = "idle"
                /\ initPc' # "idle"
                /\ audioContext' # NULL
                /\ liveTalkingSessionId' = 0
                /\ ~liveTalkingRef'
          /\ (callPc = "session" /\ liveTalkingSessionId = 0 /\ callPc' # callPc)
             => callPc' = "starting" /\ UNCHANGED audio
          /\ (callPc = "starting" /\ callPc' # callPc)
             => callPc' = "record" /\ recPc' = "getUserMedia"
          /\ (sent' = "set_livetalking_session" /\ callPc' # callPc)
             => liveTalkingSessionId > 0 /\ connPc = "resolved"]_vars
    /\ [](connPc = "rejected" => liveTalkingSessionId = 0)
    /\ []((connPc = "rejected" /\ callPc \in {"record", "done"})
             => initPc = "resolved" /\ recPc # "idle")

\* C29 witness: connect() was rejected and the call is up all the same:
\* initialize() and startRecording() have resolved and the microphone is
\* recording, with nothing in liveTalkingRef.
C29_Witness ==
    /\ connPc = "rejected"
    /\ callPc = "done"
    /\ initPc = "resolved"
    /\ recPc = "done"
    /\ isRecording
    /\ audioManager
    /\ ~liveTalkingRef
    /\ liveTalkingSessionId = 0

\* C29, with video: connect() resolved with 42 and the command has just
\* been sent.
C29_Announced ==
    /\ callPc = "starting"
    /\ sent = "set_livetalking_session"
    /\ liveTalkingSessionId = 42
    /\ liveTalkingRef

\* The call attempt failed: connect(), initialize() or startRecording()
\* was rejected.
AttemptFailed ==
    connPc = "rejected" \/ initPc = "rejected" \/ recPc = "failed"

\* Resources still held: a peer connection not closed, an audio context
\* not closed, a socket connecting or open, a microphone stream not stopped,
\* a worklet node not disconnected.
Held ==
    \/ peers > 0
    \/ audioContext # NULL
    \/ readyState \in {"CONNECTING", "OPEN"}
    \/ streams > 0
    \/ nodes > 0

\* C30: once endCall() has run after a failed call attempt, nothing the
\* attempt acquired is still held.
C30_FailuresReleasable ==
    (ended /\ AttemptFailed) => ~Held

\* C30 witness of the failure: connect() was rejected, endCall() has run,
\* and the peer connection of the attempt is still open, referenced by
\* nothing the App holds.
C30_PeerLeaked ==
    /\ ended
    /\ connPc = "rejected"
    /\ ~liveTalkingRef
    /\ peerConnection # NULL
    /\ peers = 1

\* C30, the audio side: initialize() was rejected by the timeout, endCall()
\* has run, and the audio context and the open socket are still held.
C30_AudioLeaked ==
    /\ ended
    /\ initPc = "rejected"
    /\ ~audioManager
    /\ audioContext # NULL
    /\ readyState = "OPEN"

\* C30, the paths that do release: after a call attempt in which nothing
\* was rejected, endCall() leaves nothing held.
C30_SuccessReleases ==
    (ended /\ ~AttemptFailed) => ~Held

(***************************************************************************)
(* Further claims about the ring buffer.                                   *)
(***************************************************************************)
\* The three cursors of the ring as the 'clear' branch leaves them.
AllReset == writeIndex = 0 /\ readIndex = 0 /\ availableSamples = 0

\* C31: 'clear' is applied as a unit.  Every step that handles a 'clear'
\* ends with writeIndex, readIndex and availableSamples all 0, and in every
\* interleaving of messages and render callbacks the state after a clear
\* keeps all three at 0 until a 'buffer' message stores a sample: no state in
\* which only some of them were reset is observable.
C31_ClearAtomic ==
    [][/\ WorkletMessage(ClearMsg) => AllReset'
       /\ cleared' => AllReset']_vars

\* C31 witness: a clear has just been applied to a ring whose last slot had
\* been written, so the write cursor had moved before the reset.
C31_Witness ==
    /\ cleared
    /\ output = <<>>
    /\ buffer[bufferSize - 1] # 0
    /\ buffer[0] # buffer[bufferSize - 1]
    /\ AllReset

\* C34: in every reachable state writeIndex = (readIndex + availableSamples)
\* mod bufferSize, and the two cursors coincide only when the buffer is empty
\* or full.
C34_CursorRelation ==
    /\ writeIndex = (readIndex + availableSamples) % bufferSize
    /\ writeIndex = readIndex => availableSamples \in {0, bufferSize}

\* C34 witness: the unread region wraps around the end of the array: the
\* write cursor is behind the read cursor and the buffer is neither empty
\* nor full.
C34_Witness ==
    /\ 0 < writeIndex
    /\ writeIndex < readIndex
    /\ availableSamples = bufferSize - readIndex + writeIndex

(***************************************************************************)
(* SpecRingFair: the processor with render callbacks scheduled fairly: the *)
(* audio engine calls process() once per render quantum for as long as the *)
(* node is alive (process() returns true, line 64).                        *)
(***************************************************************************)
SpecRingFair ==
    SpecRing /\ WF_vars(RingTick /\ UNCHANGED <<script, barge, live, compositor, app>>)

\* A step that handles a 'buffer' message.
BufferArrives == \E d \in Payloads : WorkletMessage(BufferMsg(d))

\* C33: the consumer never stalls and drains in bounded steps.  A render
\* callback can always run; a callback for n samples fills all n and takes
\* min(n, availableSamples) samples off the ring; and if from some point on
\* no 'buffer' message arrives, then availableSamples eventually is 0 for
\* ever and every output frame from then on is silence.
C33_Drains ==
    /\ [](ENABLED RingTick)
    /\ [][\A n \in FrameSizes :
              RenderTick(n, FALSE) =>
                  /\ Len(output') = n
                  /\ availableSamples' =
                         IF availableSamples > n THEN availableSamples - n ELSE 0]_vars
    /\ (<>[][~BufferArrives]_vars) =>
           <>[](availableSamples = 0 /\ output = Zeros(Len(output)))

\* C33 witness: after samples were stored and played, a callback found the
\* ring drained and delivered a full frame of silence.
C33_Witness ==
    /\ ~cleared
    /\ readIndex # 0
    /\ availableSamples = 0
    /\ Len(output) = bufferSize + 1
    /\ output = Zeros(Len(output))

(***************************************************************************)
(* SpecBarge: the barge-in scenario.  The session is initialised and       *)
(* recording is started; the server sends audio payloads, then one         *)
(* 'user_speaking' message, then more audio payloads, while the worklet    *)
(* handles the port's messages and the render thread plays.  Payloads sent *)
(* before 'user_speaking' carry the sample values PreValues, those sent    *)
(* after it the values PostValues, so that the output shows where a played   *)
(* sample came from.  barge records the scenario: phase is 0 before        *)
(* 'user_speaking' is received, 1 once the session has handled it and 2    *)
(* once the worklet has applied the clear it posted; before counts the     *)
(* earlier payloads, after holds the samples of the later payloads posted  *)
(* to the worklet, played the samples read from the ring since the clear   *)
(* was applied and dropped the number of unread samples that clear found.  *)
(***************************************************************************)
BargePort == 3
MaxPre == 2
PreValues == {1, 2}
PostValues == {3}
PrePayloads == {<<1>>, <<1, 2>>}
PostPayloads == {<<3>>, <<3, 3>>}

BargeSetup ==
    /\ \/ Initialize(TRUE)
       \/ AddModuleResolved
       \/ WsOpen
       \/ WsTextWithin(StatusMsg("ready"), BargePort)
       \/ StartRecordingBegin
       \/ StartRecordingGranted
    /\ UNCHANGED barge

\* A payload arrives before 'user_speaking'.
BargeEarlier ==
    /\ barge.phase = 0
    /\ barge.before < MaxPre
    /\ \E d \in PrePayloads : WsBinaryWithin(Pcm(d), BargePort)
    /\ barge' = [barge EXCEPT !.before = @ + 1]

\* 'user_speaking' arrives once recording has started.
BargeSpeaking ==
    /\ barge.phase = 0
    /\ workletNode # NULL
    /\ WsTextWithin(StatusMsg("user_speaking"), BargePort)
    /\ barge' = [barge EXCEPT !.phase = 1]

\* A payload arrives after 'user_speaking'.
BargeLater ==
    /\ barge.phase >= 1
    /\ \E d \in PostPayloads :
          /\ Len(barge.after) + Len(d) <= bufferSize
          /\ WsBinaryWithin(Pcm(d), BargePort)
          /\ barge' = [barge EXCEPT !.after = @ \o d]

\* The worklet handles the oldest message in flight; the only clear of the
\* scenario is the one 'user_speaking' caused.
BargeDeliver ==
    /\ PortDeliver
    /\ barge' = IF Head(port).type = "clear"
                THEN [barge EXCEPT !.phase = 2, !.dropped = availableSamples]
                ELSE barge

\* A render callback; what it reads from the ring after the clear is played
\* after the clear.
BargeTick ==
    /\ workletNode # NULL
    /\ \E n \in 1 .. 2 :
          /\ RenderTick(n, FALSE)
          /\ barge' = IF barge.phase = 2
                      THEN [barge EXCEPT !.played = @ \o Rendered(n).taken]
                      ELSE barge
    /\ UNCHANGED mgrVars

BargeStep ==
    \/ BargeSetup
    \/ BargeEarlier
    \/ BargeSpeaking
    \/ BargeLater
    \/ BargeDeliver
    \/ BargeTick

NextBarge == BargeStep /\ UNCHANGED <<script, live, compositor, app>>

SpecBarge == Init /\ [][NextBarge]_vars

\* The samples of the 'buffer' messages of a queue, in order.
RECURSIVE Flat(_)
Flat(q) == IF q = <<>> THEN <<>> ELSE Head(q).buffer \o Flat(Tail(q))

\* The messages of a queue behind its last 'clear'.
AfterClear(q) ==
    LET clears == {i \in 1 .. Len(q) : q[i].type = "clear"}
    IN IF clears = {} THEN q
       ELSE SubSeq(q, (CHOOSE i \in clears : \A j \in clears : j <= i) + 1, Len(q))

\* C32: barge-in ordering.  While the clear that 'user_speaking' caused is
\* in flight, it is in the port and the samples received after
\* 'user_speaking' are exactly those behind it.  Once the worklet has applied
\* it, nothing read from the ring comes from a payload received before
\* 'user_speaking', and the samples received after 'user_speaking' are, in
\* order, exactly those played since, those unread in the ring and those
\* still in flight: the clear discarded none of them.
C32_BargeInOrder ==
    /\ barge.phase = 1 =>
          /\ \E i \in 1 .. Len(port) : port[i] = ClearMsg
          /\ barge.after = Flat(AfterClear(port))
    /\ barge.phase = 2 =>
          /\ \A i \in 1 .. Len(barge.played) : barge.played[i] \notin PreValues
          /\ \A i \in 1 .. Len(output) : output[i] \notin PreValues
          /\ barge.after = barge.played \o RingContents \o Flat(port)

\* C32 witness: the clear discarded unread samples of earlier payloads, and
\* the later payloads, two messages of them, were played completely.
C32_Witness ==
    /\ barge.phase = 2
    /\ barge.dropped > 0
    /\ Len(barge.after) >= 3
    /\ barge.played = barge.after

\* C32, the port at work: an earlier payload, the clear and a later payload
\* are in flight together.
C32_AllInFlight ==
    /\ Len(port) = 3
    /\ port[1].type = "buffer"
    /\ port[2] = ClearMsg
    /\ port[3].type = "buffer"
    /\ \A i \in 1 .. Len(port[3].buffer) : port[3].buffer[i] \in PostValues

(***************************************************************************)
(* The status after stop().                                                *)
(***************************************************************************)
\* stop() has run and initialize() has not been called since: initialize()
\* alone creates the context (line 36), stop() alone drops it (lines 264-267).
Stopped == audioContext = NULL /\ initPc # "idle"

\* C35: after stop() the status is 'disconnected' and stays 'disconnected'
\* until initialize() is called again: while the instance holds no context
\* and the status is 'disconnected', no step other than a call of
\* initialize() changes the status.
C35_StaysDisconnected ==
    [][(status = "disconnected" /\ audioContext = NULL
            /\ ~(\E supported \in BOOLEAN : Initialize(supported)))
           => status' = "disconnected"]_vars

\* C35, the failure: after stop() a callback left over from initialize() has
\* set the status to 'error'.
C35_ErrorAfterStop ==
    /\ Stopped
    /\ status = "error"

\* C35, the failure: after stop() the connection that the in-flight
\* initialize() went on to open has made the status 'ready' or 'processing'.
C35_ReadyAfterStop ==
    /\ Stopped
    /\ status \in {"ready", "processing"}

====
